---- MODULE Spec2Model ----
(***************************************************************************)
(* Capsule routing between the front-end manager (frontend.Frontend), its  *)
(* Telegram binding, the back-end manager (backend.Backend) and the        *)
(* lifecycle controller (main), over the shared unbuffered channel         *)
(* capsuleChan and the unbuffered inbound-event channel userInput.         *)
(*                                                                         *)
(* A capsule is a heap object passed by pointer; the pointer is modelled   *)
(* by the capsule's OriginalMessage identifier and the object by caps[id]. *)
(* A send on an unbuffered channel is a rendezvous: one action moves the   *)
(* blocked sender and the receiver waiting in its select together.  A send *)
(* on a closed channel panics, which ends the whole process (crashed).     *)
(***************************************************************************)
EXTENDS Integers, Sequences, FiniteSets, TLC

\* ------------------------------------------------------------------ bounds
MaxEvents    == 2   \* user events handled by the bindings in one run
NumHandlers  == 2   \* handler tasks of the bindings that may run at once
MaxProviders == 2   \* activated front-end configuration entries
MaxConfig    == 2   \* entries of the front-end configuration file
MaxReplies   == 2   \* capsules handed to Frontend.message on its own
MaxPending   == 3   \* entries of a pending table handed to a binding on its own
MaxCalls     == 2   \* calls made on a binding on its own

\* --------------------------------------------------------------- constants
label == "telegram"
ErrorStatus == "Error"
NilError == "<nil>"
NilUUID == 0

Ids       == 1..MaxEvents
Handlers  == 1..NumHandlers
Providers == 1..MaxProviders

\* tb.User values that can send an update, and the configured allowlist: one
\* sender is on the list, one has a listed name only, one a listed ID only.
Senders == { [Username |-> "bob", ID |-> 1],
             [Username |-> "bob", ID |-> 2],
             [Username |-> "eve", ID |-> 1] }
AuthorizedUsers == { [Name |-> "bob", ID |-> 1] }
NoUser == [Username |-> "", ID |-> 0]

ProviderErrors == {"watson unavailable"}

\* provider.Response values a back-end provider call can return: none, one
\* or two output items.
Output(text) == [ResponseType |-> "text", Text |-> text]
Responses ==
  { [StatusCode |-> 200, Outputs |-> outputs] :
      outputs \in { <<>>, <<Output("A")>>, <<Output("A"), Output("B")>> } }
NoResponse == [StatusCode |-> 0, Outputs |-> <<>>]

NoCapsule == [OriginalMessage |-> NilUUID, FrontendProvider |-> "", Content |-> "",
              User |-> "", Responses |-> <<>>, Error |-> NilError]
NoCapsuleProvider == [OriginalMessage |-> NilUUID, ProviderLabel |-> "",
                      Content |-> "", User |-> ""]

VARIABLES
  mainPc,      \* main: "wait" (<-quit), "wgWait" (after close), "exited"
  chanClosed,  \* capsuleChan has been closed
  uiClosed,    \* userInput has been closed
  crashed,     \* a goroutine panicked: the process is gone
  nProv,       \* len(f.activatedProviders)
  fePc,        \* Frontend.Start: "select", "sendToBackend", "message", "stop", "done"
  feCap,       \* the capsule the front-end manager holds (0: none)
  feStopIdx,   \* stopProviders: index of the next provider to stop
  bePc,        \* Backend.Start: "select", "Message", "send", "stop", "done"
  beCap,       \* the capsule the back-end manager holds (0: none)
  beResponse,  \* response, err of the last provider call
  caps,        \* the capsule objects, by identifier
  hPc,         \* handler task: "idle", "send" (blocked on userInput <-)
  hMsg,        \* the CapsuleProvider a handler is sending
  hProv,       \* the binding a handler task belongs to
  pending,     \* t.pendingMessages of each binding
  nextId,      \* next identifier uuid.NewRandom returns
  nEvents,     \* user events handled so far
  handlerSent, \* Bot.Send calls made by handler tasks: [prov, to, text]
  provTask,    \* per provider: its Start task, "running" or "terminated"
  hStore,      \* the list a handler task is about to store in pendingMessages
  feSnap,      \* the pendingMessages list findPendingMessage has loaded
  \* observations of the run, which the properties are stated over
  feSent,      \* identifiers whose send by the front-end manager completed
  feRecv,      \* per identifier: receptions by the front-end manager
  beSends,     \* per identifier: send statements the back-end manager began
  beCalls,     \* per identifier: provider Message invocations
  beOrder,     \* identifiers in the order the back-end manager received them
  msgCalls,    \* completed Frontend.message calls, in order, each with the
               \* capsule, the Bot.Send calls it made and the error returned
  owner,       \* per capsule: the task that created or last received it
  touch,       \* <<task, id>> accesses to capsule objects in the last step
  legs,        \* per capsule: steps in which the front-end (fe) and the
               \* back-end (be) ran their code that writes the capsule
  origin,      \* per identifier: the binding and the user it came from
  beStops,     \* Stop calls on the back-end provider
  beWg,        \* the counter of the back-end manager's wait group b.wg
  uiCloseCalls \* close(t.userInput) statements executed by Telegram.Stop

\* The earlier revision (Backend.Start, Frontend.Start and main over the two
\* channels capsuleChan and backendErrorChan, which carry YAML documents).
VARIABLES
  v1MainPc,    \* main: "wait", "closing" (backendErrorChan closed), "wgWait"
  v1ErrClosed, \* backendErrorChan has been closed
  v1CapClosed, \* capsuleChan has been closed
  v1Crashed,   \* a goroutine panicked
  v1FePc,      \* Frontend.Start: "select", "sendToBackend", "done"
  v1FeData,    \* the document the front-end manager is sending
  v1BePc,      \* Backend.Start: "select", "Message", "errorHandler", "done"
  v1BeCapsule, \* the capsule the back-end manager unmarshalled
  v1BeData,    \* the document the back-end manager is sending
  v1Calls,     \* provider Message invocations: [contentType, text]
  v1Dropped,   \* capsules the back-end manager rejected as not valid
  v1FeErrors,  \* documents the front-end manager received on backendErrorChan
  v1Events     \* inbound events so far

\* frontend.New: loadProvider applied to a configuration.
VARIABLES
  providerConfig, \* the []*ProviderConfig loadConfig returned
  loaded          \* what loadProvider returned for it, and the entries it
                  \* called Initialize for

\* main up to <-quit: the two New calls and the tasks started.
VARIABLES
  backendConfig,  \* the *provider.Config the back-end's loadConfig returned
  startPc,        \* main: "newFront", "newBack", "goFront", "goBack", "quit"
                  \* (at <-quit), "panic" (panic(err): the process is gone)
  front,          \* front, err := frontend.New(capsuleChan)
  back,           \* back, err := backend.New(capsuleChan)
  tasks           \* the tasks started: <<"front.Start", 0>>, <<"back.Start", 0>>
                  \* and <<"provider.Start", i>> for the i-th activated provider

uvars == <<providerConfig, loaded, backendConfig, startPc, front, back, tasks>>

\* One binding on its own: Telegram.Message and findPendingMessage applied to
\* a pending table.
VARIABLES
  table,          \* t.pendingMessages
  reply,          \* the capsule handed to Message
  calls           \* the calls made so far, each with the table before and
                  \* after it, the Bot.Send calls it made and what it returned

bvars == <<table, reply, calls>>

v1vars == <<v1MainPc, v1ErrClosed, v1CapClosed, v1Crashed, v1FePc, v1FeData, v1BePc,
            v1BeCapsule, v1BeData, v1Calls, v1Dropped, v1FeErrors, v1Events>>

prog == <<mainPc, chanClosed, uiClosed, crashed, nProv, fePc, feCap, feStopIdx,
          bePc, beCap, beResponse, caps, hPc, hMsg, hProv, pending, nextId,
          nEvents, handlerSent, provTask, hStore, feSnap>>
hist == <<feSent, feRecv, beSends, beCalls, beOrder, msgCalls, owner, touch, legs,
          origin, beStops, beWg, uiCloseCalls>>
vars == <<prog, hist, v1vars, uvars, bvars>>

\* ------------------------------------------------------- pure operations

\* A string sent to a user is the sequence of the pieces it is formatted from.
\* provider.SystemLog: fmt.Sprintf("[SYSTEM]%s: %s", status, content)
SystemLog(content, status) == <<"[SYSTEM]", status, ": ", content>>
Plain(text) == <<text>>

\* telegram.messageToCapsuleProvider
messageToCapsuleProvider(msg) ==
  [OriginalMessage |-> msg.uuid, ProviderLabel |-> label,
   Content |-> msg.content, User |-> msg.user.Username]

\* Variant: a sender is accepted on its ID alone.
userIsValidIDOnly(sender) ==
  \E user \in AuthorizedUsers : user.ID = sender.ID

\* The authorization loop of textMessageHandler.
userIsValid(sender) ==
  \E user \in AuthorizedUsers : user.Name = sender.Username /\ user.ID = sender.ID

\* telegram.processUserMessage up to the send on userInput: the new pending
\* list, the event to send (out) and the error returned.
processUserMessage(pendingMessages, uuid, uuidErr, sender, text, contentType) ==
  IF uuidErr # NilError
  THEN [pendingMessages |-> pendingMessages, send |-> FALSE,
        out |-> NoCapsuleProvider, err |-> uuidErr]
  ELSE IF contentType = "Text"
  THEN LET message == [uuid |-> uuid, contentType |-> "Text",
                       content |-> text, user |-> sender]
       IN [pendingMessages |-> Append(pendingMessages, message), send |-> TRUE,
           out |-> messageToCapsuleProvider(message), err |-> NilError]
  ELSE IF contentType \in {"Audio", "Image"}
  THEN [pendingMessages |-> pendingMessages, send |-> FALSE,
        out |-> NoCapsuleProvider,
        err |-> "message handling not implemented"]
  ELSE [pendingMessages |-> pendingMessages, send |-> FALSE,
        out |-> NoCapsuleProvider, err |-> "input type not found"]

\* The capsule Frontend.sendToBackend builds from an inbound event.
NewCapsule(userInput) ==
  [OriginalMessage |-> userInput.OriginalMessage,
   FrontendProvider |-> userInput.ProviderLabel,
   Content |-> userInput.Content,
   User |-> userInput.User,
   Responses |-> <<>>,
   Error |-> NilError]

\* Backend.Start, the loop over response.Outputs:
\*   capsule.Responses = append(capsule.Responses, output.Text)
RECURSIVE AppendOutputs(_, _)
AppendOutputs(responses, outputs) ==
  IF outputs = <<>> THEN responses
  ELSE AppendOutputs(Append(responses, Head(outputs).Text), Tail(outputs))

\* Variant: each output is put in front of the responses instead of behind.
RECURSIVE PrependOutputs(_, _)
PrependOutputs(responses, outputs) ==
  IF outputs = <<>> THEN responses
  ELSE PrependOutputs(<<Head(outputs).Text>> \o responses, Tail(outputs))

attachResponsesPrepend(capsule, response) ==
  [capsule EXCEPT !.Responses = PrependOutputs(capsule.Responses, response.Outputs)]

\* Backend.Start on a successful provider call.
attachResponses(capsule, response) ==
  [capsule EXCEPT !.Responses = AppendOutputs(capsule.Responses, response.Outputs)]

\* Variant: the provider's error is logged and not attached.
errorHandlerSwallow(original, err) == original

\* Variant: the error handler also blanks the content it could not process.
errorHandlerClearContent(original, err) ==
  [original EXCEPT !.Error = err, !.Content = ""]

\* Backend.errorHandler: original.Error = err
errorHandler(original, err) == [original EXCEPT !.Error = err]

\* Variant: the matched entry is cut together with every entry after it.
RECURSIVE findFromTruncate(_, _, _)
findFromTruncate(pendingMessages, uuid, i) ==
  IF i > Len(pendingMessages)
  THEN [found |-> FALSE, m |-> [uuid |-> NilUUID, contentType |-> "", content |-> "",
                                 user |-> NoUser],
        pendingMessages |-> pendingMessages, err |-> "message not found"]
  ELSE IF pendingMessages[i].uuid = uuid
  THEN [found |-> TRUE, m |-> pendingMessages[i],
        pendingMessages |-> SubSeq(pendingMessages, 1, i - 1),
        err |-> NilError]
  ELSE findFromTruncate(pendingMessages, uuid, i + 1)

\* telegram.findPendingMessage: the entry found, the list afterwards, the error.
RECURSIVE findFrom(_, _, _)
findFrom(pendingMessages, uuid, i) ==
  IF i > Len(pendingMessages)
  THEN [found |-> FALSE, m |-> [uuid |-> NilUUID, contentType |-> "", content |-> "",
                                 user |-> NoUser],
        pendingMessages |-> pendingMessages, err |-> "message not found"]
  ELSE IF pendingMessages[i].uuid = uuid
  THEN [found |-> TRUE, m |-> pendingMessages[i],
        pendingMessages |-> SubSeq(pendingMessages, 1, i - 1) \o
                            SubSeq(pendingMessages, i + 1, Len(pendingMessages)),
        err |-> NilError]
  ELSE findFrom(pendingMessages, uuid, i + 1)

findPendingMessage(pendingMessages, uuid) ==
  IF Len(pendingMessages) = 0
  THEN [found |-> FALSE, m |-> [uuid |-> NilUUID, contentType |-> "", content |-> "",
                                 user |-> NoUser],
        pendingMessages |-> pendingMessages,
        err |-> "pending messages not provisioned"]
  ELSE findFrom(pendingMessages, uuid, 1)

\* Variant: the responses are sent whether or not a pending entry was found.
sendTextMessageAnyway(pendingMessages, respondTo, responses) ==
  LET f == findPendingMessage(pendingMessages, respondTo)
  IN [pendingMessages |-> f.pendingMessages,
      sends |-> [i \in 1..Len(responses) |->
                   [to |-> f.m.user, text |-> Plain(responses[i])]],
      err |-> f.err]

\* Variant: the responses are sent last to first.
sendTextMessageReversed(pendingMessages, respondTo, responses) ==
  LET f == findPendingMessage(pendingMessages, respondTo)
  IN IF ~f.found
     THEN [pendingMessages |-> f.pendingMessages, sends |-> <<>>, err |-> f.err]
     ELSE [pendingMessages |-> f.pendingMessages,
           sends |-> [i \in 1..Len(responses) |->
                        [to |-> f.m.user,
                         text |-> Plain(responses[Len(responses) + 1 - i])]],
           err |-> NilError]

\* telegram.sendTextMessage: the list afterwards, the Bot.Send calls, the error.
sendTextMessage(pendingMessages, respondTo, responses) ==
  LET f == findPendingMessage(pendingMessages, respondTo)
  IN IF ~f.found
     THEN [pendingMessages |-> f.pendingMessages, sends |-> <<>>, err |-> f.err]
     ELSE [pendingMessages |-> f.pendingMessages,
           sends |-> [i \in 1..Len(responses) |->
                        [to |-> f.m.user, text |-> Plain(responses[i])]],
           err |-> NilError]

\* telegram.sendErrorMessage
sendErrorMessage(pendingMessages, respondTo, error) ==
  LET f == findPendingMessage(pendingMessages, respondTo)
  IN IF ~f.found
     THEN [pendingMessages |-> f.pendingMessages, sends |-> <<>>, err |-> f.err]
     ELSE [pendingMessages |-> f.pendingMessages,
           sends |-> << [to |-> f.m.user, text |-> SystemLog(error, ErrorStatus)] >>,
           err |-> NilError]

\* Variant: the responses are sent whatever the capsule's error is.
TelegramMessageIgnoreError(pendingMessages, capsule) ==
  sendTextMessage(pendingMessages, capsule.OriginalMessage, capsule.Responses)

\* Telegram.Message
TelegramMessage(pendingMessages, capsule) ==
  IF capsule.Error # NilError /\ capsule.Error # ""
  THEN sendErrorMessage(pendingMessages, capsule.OriginalMessage, capsule.Error)
  ELSE sendTextMessage(pendingMessages, capsule.OriginalMessage, capsule.Responses)

\* Telegram.GetLabel of the provider at index p of activatedProviders.
GetLabel(p) == label

\* Variant: a capsule whose label matches no provider goes to the first one.
messageTargetDefault(capsule) ==
  IF \E p \in 1..nProv : capsule.FrontendProvider = GetLabel(p)
  THEN CHOOSE p \in 1..nProv :
         /\ capsule.FrontendProvider = GetLabel(p)
         /\ \A q \in 1..(p - 1) : capsule.FrontendProvider # GetLabel(q)
  ELSE 1

\* Frontend.message: the index of the first activated provider whose label is
\* the capsule's FrontendProvider, 0 when none matches.
messageTarget(capsule) ==
  IF \E p \in 1..nProv : capsule.FrontendProvider = GetLabel(p)
  THEN CHOOSE p \in 1..nProv :
         /\ capsule.FrontendProvider = GetLabel(p)
         /\ \A q \in 1..(p - 1) : capsule.FrontendProvider # GetLabel(q)
  ELSE 0

\* ------------------------------------------------------------------ state

UserTexts == {"hello"}
UuidErrors == {NilError, "uuid: rand failure"}

InitLater ==
  /\ mainPc = "wait"
  /\ chanClosed = FALSE
  /\ uiClosed = FALSE
  /\ crashed = FALSE
  /\ nProv \in Providers
  /\ fePc = "select"
  /\ feCap = NilUUID
  /\ feStopIdx = 1
  /\ bePc = "select"
  /\ beCap = NilUUID
  /\ beResponse = [response |-> NoResponse, err |-> NilError]
  /\ caps = [i \in Ids |-> NoCapsule]
  /\ hPc = [h \in Handlers |-> "idle"]
  /\ hMsg = [h \in Handlers |-> NoCapsuleProvider]
  /\ hProv = [h \in Handlers |-> 0]
  /\ pending = [p \in Providers |-> <<>>]
  /\ nextId = 1
  /\ nEvents = 0
  /\ handlerSent = {}
  /\ provTask = [p \in Providers |-> IF p <= nProv THEN "running" ELSE "none"]
  /\ hStore = [h \in Handlers |-> <<>>]
  /\ feSnap = <<>>
  /\ feSent = {}
  /\ feRecv = [i \in Ids |-> 0]
  /\ beSends = [i \in Ids |-> 0]
  /\ beCalls = [i \in Ids |-> 0]
  /\ beOrder = <<>>
  /\ msgCalls = <<>>
  /\ owner = [i \in Ids |-> "none"]
  /\ touch = {}
  /\ legs = [i \in Ids |-> [fe |-> 0, be |-> 0]]
  /\ origin = [i \in Ids |-> [prov |-> 0, user |-> NoUser]]
  /\ beStops = 0
  /\ beWg = 1
  /\ uiCloseCalls = 0

\* The process is running: no goroutine has panicked and main has not exited.
Alive == ~crashed /\ mainPc # "exited"

\* Telegram.Stop has been called on the provider at index p (stopProviders).
Stopped(p) == fePc \in {"stop", "done"} /\ feStopIdx > p

\* ------------------------------------------------------ Telegram handlers

\* textMessageHandler on handler task h of binding p, up to the point where
\* processUserMessage has read t.pendingMessages and built the list to store.
\* The handler tasks and the front-end manager read and write pendingMessages
\* without synchronisation: the store is a later step (HandlerAppend), and
\* whichever store comes last wins.
textMessageHandler(h, p, sender, text, uuidErr) ==
  IF ~userIsValid(sender)
  THEN UNCHANGED <<hPc, hMsg, hProv, hStore, nextId, handlerSent, origin>>
  ELSE LET r == processUserMessage(pending[p], nextId, uuidErr, sender, text, "Text")
       IN IF r.send
          THEN /\ hStore' = [hStore EXCEPT ![h] = r.pendingMessages]
               /\ hPc' = [hPc EXCEPT ![h] = "append"]
               /\ hMsg' = [hMsg EXCEPT ![h] = r.out]
               /\ hProv' = [hProv EXCEPT ![h] = p]
               /\ nextId' = nextId + 1
               /\ origin' = [origin EXCEPT ![nextId] = [prov |-> p, user |-> sender]]
               /\ UNCHANGED handlerSent
          ELSE /\ handlerSent' = handlerSent \cup
                      {[prov |-> p, to |-> sender, text |-> SystemLog(r.err, ErrorStatus)]}
               /\ UNCHANGED <<hPc, hMsg, hProv, hStore, nextId, origin>>

\* photoMessageHandler and audioMessageHandler.
mediaMessageHandler(p, sender, what) ==
  /\ handlerSent' = handlerSent \cup
       {[prov |-> p, to |-> sender, text |-> SystemLog(what, ErrorStatus)]}
  /\ UNCHANGED <<hPc, hMsg, hProv, hStore, nextId, origin>>

\* The bot of binding p hands an update to a handler task (the first idle one:
\* the tasks are interchangeable).
HandleUpdate(h) ==
  /\ Alive
  /\ UNCHANGED <<v1vars, uvars, bvars>>
  /\ UNCHANGED beWg
  /\ UNCHANGED uiCloseCalls
  /\ UNCHANGED <<provTask, feSnap, beStops, pending>>
  /\ hPc[h] = "idle"
  /\ \A g \in Handlers : g < h => hPc[g] # "idle"
  /\ nEvents < MaxEvents
  /\ \E p \in 1..nProv, sender \in Senders :
       /\ ~Stopped(p)
       /\ \/ \E text \in UserTexts, uuidErr \in UuidErrors :
               textMessageHandler(h, p, sender, text, uuidErr)
          \/ mediaMessageHandler(p, sender, "Photo message handling is not implemented")
          \/ mediaMessageHandler(p, sender, "Audio message handling is not implemented")
  /\ nEvents' = nEvents + 1
  /\ touch' = {}
  /\ UNCHANGED <<mainPc, chanClosed, uiClosed, crashed, nProv, fePc, feCap, feStopIdx,
                 bePc, beCap, beResponse, caps>>
  /\ UNCHANGED <<feSent, feRecv, beSends, beCalls, beOrder, msgCalls, owner, legs>>

\* processUserMessage: t.pendingMessages = append(t.pendingMessages, message)
\* stores the list; the handler reaches t.userInput <- ...
HandlerAppend(h) ==
  /\ Alive
  /\ UNCHANGED <<v1vars, uvars, bvars>>
  /\ UNCHANGED beWg
  /\ UNCHANGED uiCloseCalls
  /\ UNCHANGED <<provTask, feSnap, beStops>>
  /\ hPc[h] = "append"
  /\ pending' = [pending EXCEPT ![hProv[h]] = hStore[h]]
  /\ hStore' = [hStore EXCEPT ![h] = <<>>]
  /\ hPc' = [hPc EXCEPT ![h] = "send"]
  /\ touch' = {}
  /\ UNCHANGED <<mainPc, chanClosed, uiClosed, crashed, nProv, fePc, feCap, feStopIdx,
                 bePc, beCap, beResponse, caps, hMsg, hProv, nextId, nEvents,
                 handlerSent>>
  /\ UNCHANGED <<feSent, feRecv, beSends, beCalls, beOrder, msgCalls, owner, legs, origin>>

\* processUserMessage, t.userInput <- ...: the send meets a closed channel.
HandlerSendPanic(h) ==
  /\ Alive
  /\ UNCHANGED <<v1vars, uvars, bvars>>
  /\ UNCHANGED beWg
  /\ UNCHANGED uiCloseCalls
  /\ UNCHANGED <<provTask, hStore, feSnap, beStops>>
  /\ hPc[h] = "send"
  /\ uiClosed
  /\ crashed' = TRUE
  /\ touch' = {}
  /\ UNCHANGED <<mainPc, chanClosed, uiClosed, nProv, fePc, feCap, feStopIdx, bePc,
                 beCap, beResponse, caps, hPc, hMsg, hProv, pending, nextId, nEvents,
                 handlerSent>>
  /\ UNCHANGED <<feSent, feRecv, beSends, beCalls, beOrder, msgCalls, owner, legs, origin>>

\* ------------------------------------------------------- Frontend.Start

\* case capsule, ok := <-f.userInput (ok): the handler's send and the
\* manager's receive meet; sendToBackend builds the capsule and reaches
\* f.capsule <- capsule.
FeRecvUserInput(h) ==
  /\ Alive
  /\ UNCHANGED <<v1vars, uvars, bvars>>
  /\ UNCHANGED beWg
  /\ UNCHANGED uiCloseCalls
  /\ UNCHANGED <<provTask, hStore, feSnap, beStops>>
  /\ fePc = "select"
  /\ hPc[h] = "send"
  /\ ~uiClosed
  /\ LET capsule == NewCapsule(hMsg[h])
         id == capsule.OriginalMessage
     IN /\ caps' = [caps EXCEPT ![id] = capsule]
        /\ feCap' = id
        /\ owner' = [owner EXCEPT ![id] = "fe"]
        /\ touch' = {<<"fe", id>>}
        /\ legs' = [legs EXCEPT ![id].fe = @ + 1]
  /\ fePc' = "sendToBackend"
  /\ hPc' = [hPc EXCEPT ![h] = "idle"]
  /\ hMsg' = [hMsg EXCEPT ![h] = NoCapsuleProvider]
  /\ hProv' = [hProv EXCEPT ![h] = 0]
  /\ UNCHANGED <<mainPc, chanClosed, uiClosed, crashed, nProv, feStopIdx, bePc, beCap,
                 beResponse, pending, nextId, nEvents, handlerSent>>
  /\ UNCHANGED <<feSent, feRecv, beSends, beCalls, beOrder, msgCalls, origin>>

\* Variant: sendToBackend runs in a task of its own, and its send is met by
\* the front-end manager's own case capsule, ok := <-f.capsule.
FeSendCapsuleLoopback ==
  /\ Alive
  /\ UNCHANGED <<v1vars, uvars, bvars>>
  /\ UNCHANGED beWg
  /\ UNCHANGED uiCloseCalls
  /\ UNCHANGED <<provTask, hStore, feSnap, beStops>>
  /\ fePc = "sendToBackend"
  /\ ~chanClosed
  /\ fePc' = "message"
  /\ feSent' = feSent \cup {feCap}
  /\ feRecv' = [feRecv EXCEPT ![feCap] = @ + 1]
  /\ touch' = {}
  /\ UNCHANGED <<mainPc, chanClosed, uiClosed, crashed, nProv, feCap, feStopIdx, bePc,
                 beCap, beResponse, caps, hPc, hMsg, hProv, pending, nextId, nEvents,
                 handlerSent>>
  /\ UNCHANGED <<beSends, beCalls, beOrder, msgCalls, owner, legs, origin>>

\* f.capsule <- capsule in sendToBackend meets case capsule, ok := <-b.capsule
\* in Backend.Start, which logs the capsule and calls the provider's Message.
FeSendCapsule ==
  /\ Alive
  /\ UNCHANGED <<v1vars, uvars, bvars>>
  /\ UNCHANGED beWg
  /\ UNCHANGED uiCloseCalls
  /\ UNCHANGED <<provTask, hStore, feSnap, beStops>>
  /\ fePc = "sendToBackend"
  /\ bePc = "select"
  /\ ~chanClosed
  /\ fePc' = "select"
  /\ feCap' = NilUUID
  /\ bePc' = "Message"
  /\ beCap' = feCap
  /\ feSent' = feSent \cup {feCap}
  /\ beCalls' = [beCalls EXCEPT ![feCap] = @ + 1]
  /\ beOrder' = Append(beOrder, feCap)
  /\ owner' = [owner EXCEPT ![feCap] = "be"]
  /\ touch' = {<<"be", feCap>>}
  /\ UNCHANGED <<mainPc, chanClosed, uiClosed, crashed, nProv, feStopIdx, beResponse,
                 caps, hPc, hMsg, hProv, pending, nextId, nEvents, handlerSent>>
  /\ UNCHANGED <<feRecv, beSends, msgCalls, legs, origin>>

\* f.capsule <- capsule on the closed channel: panic.
FeSendPanic ==
  /\ Alive
  /\ UNCHANGED <<v1vars, uvars, bvars>>
  /\ UNCHANGED beWg
  /\ UNCHANGED uiCloseCalls
  /\ UNCHANGED <<provTask, hStore, feSnap, beStops>>
  /\ fePc = "sendToBackend"
  /\ chanClosed
  /\ crashed' = TRUE
  /\ touch' = {}
  /\ UNCHANGED <<mainPc, chanClosed, uiClosed, nProv, fePc, feCap, feStopIdx, bePc,
                 beCap, beResponse, caps, hPc, hMsg, hProv, pending, nextId, nEvents,
                 handlerSent>>
  /\ UNCHANGED <<feSent, feRecv, beSends, beCalls, beOrder, msgCalls, owner, legs, origin>>

\* Frontend.message has chosen the first provider whose label matches, and
\* findPendingMessage reads that provider's t.pendingMessages.
FeLoadPending ==
  /\ Alive
  /\ UNCHANGED <<v1vars, uvars, bvars>>
  /\ UNCHANGED beWg
  /\ UNCHANGED uiCloseCalls
  /\ UNCHANGED <<provTask, hStore, beStops>>
  /\ fePc = "message"
  /\ messageTarget(caps[feCap]) # 0
  /\ feSnap' = pending[messageTarget(caps[feCap])]
  /\ fePc' = "cut"
  /\ touch' = {<<"fe", feCap>>}
  /\ UNCHANGED <<mainPc, chanClosed, uiClosed, crashed, nProv, feCap, feStopIdx, bePc,
                 beCap, beResponse, caps, hPc, hMsg, hProv, pending, nextId, nEvents,
                 handlerSent>>
  /\ UNCHANGED <<feSent, feRecv, beSends, beCalls, beOrder, msgCalls, owner, legs, origin>>

\* Frontend.message: deliver the returned capsule through the first provider
\* whose label matches; findPendingMessage stores the list it has cut when it
\* found the entry.  The loop logs an error and goes on.
FeMessage ==
  /\ Alive
  /\ UNCHANGED <<v1vars, uvars, bvars>>
  /\ UNCHANGED beWg
  /\ UNCHANGED uiCloseCalls
  /\ UNCHANGED <<provTask, hStore, beStops>>
  /\ fePc \in {"message", "cut"}
  /\ LET capsule == caps[feCap]
         p == messageTarget(capsule)
     IN IF p = 0
        THEN /\ fePc = "message"
             /\ msgCalls' = Append(msgCalls,
                   [prov |-> 0, id |-> feCap, capsule |-> capsule, sends |-> <<>>,
                    err |-> "frontend provider not found"])
             /\ UNCHANGED <<pending, handlerSent>>
        ELSE LET r == TelegramMessage(feSnap, capsule)
             IN /\ fePc = "cut"
                /\ pending' = IF r.err = NilError
                              THEN [pending EXCEPT ![p] = r.pendingMessages]
                              ELSE pending
                /\ UNCHANGED handlerSent
                /\ msgCalls' = Append(msgCalls,
                      [prov |-> p, id |-> feCap, capsule |-> capsule,
                       sends |-> r.sends, err |-> r.err])
  /\ touch' = {<<"fe", feCap>>}
  /\ fePc' = "select"
  /\ feCap' = NilUUID
  /\ feSnap' = <<>>
  /\ UNCHANGED <<mainPc, chanClosed, uiClosed, crashed, nProv, feStopIdx, bePc, beCap,
                 beResponse, caps, hPc, hMsg, hProv, nextId, nEvents>>
  /\ UNCHANGED <<feSent, feRecv, beSends, beCalls, beOrder, owner, legs, origin>>

\* Variant: the select also has a timeout case that enters stop(f).
FeObserveCloseOrTimeout ==
  /\ Alive
  /\ UNCHANGED <<v1vars, uvars, bvars>>
  /\ UNCHANGED beWg
  /\ UNCHANGED uiCloseCalls
  /\ UNCHANGED <<provTask, hStore, feSnap, beStops>>
  /\ fePc = "select"
  /\ fePc' = "stop"
  /\ feStopIdx' = 1
  /\ touch' = {}
  /\ UNCHANGED <<mainPc, chanClosed, uiClosed, crashed, nProv, feCap, bePc, beCap,
                 beResponse, caps, hPc, hMsg, hProv, pending, nextId, nEvents, handlerSent>>
  /\ UNCHANGED <<feSent, feRecv, beSends, beCalls, beOrder, msgCalls, owner, legs, origin>>

\* The select observes a closed channel (!ok) and enters stop(f).
FeObserveClose ==
  /\ Alive
  /\ UNCHANGED <<v1vars, uvars, bvars>>
  /\ UNCHANGED beWg
  /\ UNCHANGED uiCloseCalls
  /\ UNCHANGED <<provTask, hStore, feSnap, beStops>>
  /\ fePc = "select"
  /\ chanClosed \/ uiClosed
  /\ fePc' = "stop"
  /\ feStopIdx' = 1
  /\ touch' = {}
  /\ UNCHANGED <<mainPc, chanClosed, uiClosed, crashed, nProv, feCap, bePc, beCap,
                 beResponse, caps, hPc, hMsg, hProv, pending, nextId, nEvents, handlerSent>>
  /\ UNCHANGED <<feSent, feRecv, beSends, beCalls, beOrder, msgCalls, owner, legs, origin>>

\* stopProviders, one iteration: p.Stop() closes userInput (a second close
\* panics) and stops the bot; f.wg.Done().
FeStopProvider ==
  /\ Alive
  /\ UNCHANGED <<v1vars, uvars, bvars>>
  /\ UNCHANGED beWg
  /\ UNCHANGED <<provTask, hStore, feSnap, beStops>>
  /\ fePc = "stop"
  /\ feStopIdx <= nProv
  /\ uiCloseCalls' = uiCloseCalls + 1
  /\ IF uiClosed
     THEN crashed' = TRUE /\ UNCHANGED <<uiClosed, feStopIdx>>
     ELSE uiClosed' = TRUE /\ feStopIdx' = feStopIdx + 1 /\ UNCHANGED crashed
  /\ touch' = {}
  /\ UNCHANGED <<mainPc, chanClosed, nProv, fePc, feCap, bePc, beCap, beResponse, caps,
                 hPc, hMsg, hProv, pending, nextId, nEvents, handlerSent>>
  /\ UNCHANGED <<feSent, feRecv, beSends, beCalls, beOrder, msgCalls, owner, legs, origin>>

\* The Start task of provider p (t.Bot.Start()) returns after Stop has told
\* the bot to stop.  The task never touches f.wg.
ProviderStartReturn(p) ==
  /\ Alive
  /\ UNCHANGED <<v1vars, uvars, bvars>>
  /\ UNCHANGED beWg
  /\ UNCHANGED uiCloseCalls
  /\ UNCHANGED <<hStore, feSnap, beStops>>
  /\ p <= nProv
  /\ Stopped(p)
  /\ provTask[p] = "running"
  /\ provTask' = [provTask EXCEPT ![p] = "terminated"]
  /\ touch' = {}
  /\ UNCHANGED <<mainPc, chanClosed, uiClosed, crashed, nProv, fePc, feCap, feStopIdx,
                 bePc, beCap, beResponse, caps, hPc, hMsg, hProv, pending, nextId,
                 nEvents, handlerSent>>
  /\ UNCHANGED <<feSent, feRecv, beSends, beCalls, beOrder, msgCalls, owner, legs, origin>>

\* f.wg.Wait() returns (stopProviders has called Done once per provider),
\* break listeningLoop, Start returns.
FeReturn ==
  /\ Alive
  /\ UNCHANGED <<v1vars, uvars, bvars>>
  /\ UNCHANGED beWg
  /\ UNCHANGED uiCloseCalls
  /\ UNCHANGED <<provTask, hStore, feSnap, beStops>>
  /\ fePc = "stop"
  /\ feStopIdx > nProv
  /\ fePc' = "done"
  /\ touch' = {}
  /\ UNCHANGED <<mainPc, chanClosed, uiClosed, crashed, nProv, feCap, feStopIdx, bePc,
                 beCap, beResponse, caps, hPc, hMsg, hProv, pending, nextId, nEvents,
                 handlerSent>>
  /\ UNCHANGED <<feSent, feRecv, beSends, beCalls, beOrder, msgCalls, owner, legs, origin>>

\* -------------------------------------------------------- Backend.Start

\* Variant: a provider failure ends the loop and Start returns.
BeMessageErrorReturn ==
  /\ Alive
  /\ UNCHANGED <<v1vars, uvars, bvars>>
  /\ UNCHANGED beWg
  /\ UNCHANGED uiCloseCalls
  /\ UNCHANGED <<provTask, hStore, feSnap, beStops>>
  /\ bePc = "Message"
  /\ \E err \in ProviderErrors :
       /\ caps' = [caps EXCEPT ![beCap] = errorHandler(caps[beCap], err)]
       /\ beResponse' = [response |-> NoResponse, err |-> err]
  /\ bePc' = "done"
  /\ beSends' = [beSends EXCEPT ![beCap] = @ + 1]
  /\ touch' = {<<"be", beCap>>}
  /\ legs' = [legs EXCEPT ![beCap].be = @ + 1]
  /\ UNCHANGED <<mainPc, chanClosed, uiClosed, crashed, nProv, fePc, feCap, feStopIdx,
                 beCap, hPc, hMsg, hProv, pending, nextId, nEvents, handlerSent>>
  /\ UNCHANGED <<feSent, feRecv, beCalls, beOrder, msgCalls, owner, origin>>

\* Variant: on a provider error the loop logs and breaks without sending the
\* capsule back.
BeMessageErrorDrop ==
  /\ Alive
  /\ UNCHANGED <<v1vars, uvars, bvars>>
  /\ UNCHANGED beWg
  /\ UNCHANGED uiCloseCalls
  /\ UNCHANGED <<provTask, hStore, feSnap, beStops>>
  /\ bePc = "Message"
  /\ \E err \in ProviderErrors :
       /\ caps' = [caps EXCEPT ![beCap] = errorHandler(caps[beCap], err)]
       /\ beResponse' = [response |-> NoResponse, err |-> err]
  /\ bePc' = "select"
  /\ beCap' = NilUUID
  /\ touch' = {<<"be", beCap>>}
  /\ legs' = [legs EXCEPT ![beCap].be = @ + 1]
  /\ UNCHANGED <<mainPc, chanClosed, uiClosed, crashed, nProv, fePc, feCap, feStopIdx,
                 hPc, hMsg, hProv, pending, nextId, nEvents, handlerSent>>
  /\ UNCHANGED <<feSent, feRecv, beSends, beCalls, beOrder, msgCalls, owner, origin>>

\* Variant: a failed provider call is made once more before the error is
\* attached.
BeMessageErrorRetry ==
  /\ Alive
  /\ UNCHANGED <<v1vars, uvars, bvars>>
  /\ UNCHANGED beWg
  /\ UNCHANGED uiCloseCalls
  /\ UNCHANGED <<provTask, hStore, feSnap, beStops>>
  /\ bePc = "Message"
  /\ \E err \in ProviderErrors :
       IF beCalls[beCap] < 2
       THEN /\ beCalls' = [beCalls EXCEPT ![beCap] = @ + 1]
            /\ beResponse' = [response |-> NoResponse, err |-> err]
            /\ UNCHANGED <<caps, bePc, beSends, legs>>
            /\ touch' = {}
       ELSE /\ caps' = [caps EXCEPT ![beCap] = errorHandler(caps[beCap], err)]
            /\ beResponse' = [response |-> NoResponse, err |-> err]
            /\ bePc' = "send"
            /\ beSends' = [beSends EXCEPT ![beCap] = @ + 1]
            /\ touch' = {<<"be", beCap>>}
            /\ legs' = [legs EXCEPT ![beCap].be = @ + 1]
            /\ UNCHANGED beCalls
  /\ UNCHANGED <<mainPc, chanClosed, uiClosed, crashed, nProv, fePc, feCap, feStopIdx,
                 beCap, hPc, hMsg, hProv, pending, nextId, nEvents, handlerSent>>
  /\ UNCHANGED <<feSent, feRecv, beOrder, msgCalls, owner, origin>>

\* activatedProvider.Message returned an error: errorHandler attaches it and
\* reaches b.capsule <- original.
BeMessageError ==
  /\ Alive
  /\ UNCHANGED <<v1vars, uvars, bvars>>
  /\ UNCHANGED beWg
  /\ UNCHANGED uiCloseCalls
  /\ UNCHANGED <<provTask, hStore, feSnap, beStops>>
  /\ bePc = "Message"
  /\ \E err \in ProviderErrors :
       /\ caps' = [caps EXCEPT ![beCap] = errorHandler(caps[beCap], err)]
       /\ beResponse' = [response |-> NoResponse, err |-> err]
  /\ bePc' = "send"
  /\ beSends' = [beSends EXCEPT ![beCap] = @ + 1]
  /\ touch' = {<<"be", beCap>>}
  /\ legs' = [legs EXCEPT ![beCap].be = @ + 1]
  /\ UNCHANGED <<mainPc, chanClosed, uiClosed, crashed, nProv, fePc, feCap, feStopIdx,
                 beCap, hPc, hMsg, hProv, pending, nextId, nEvents, handlerSent>>
  /\ UNCHANGED <<feSent, feRecv, beCalls, beOrder, msgCalls, owner, origin>>

\* Variant: err is a variable of Start that outlives the iteration, and the
\* loop attaches what it holds to the capsule it returns.
BeMessageResponseStaleError ==
  /\ Alive
  /\ UNCHANGED <<v1vars, uvars, bvars>>
  /\ UNCHANGED beWg
  /\ UNCHANGED uiCloseCalls
  /\ UNCHANGED <<provTask, hStore, feSnap, beStops>>
  /\ bePc = "Message"
  /\ \E response \in Responses :
       /\ caps' = [caps EXCEPT ![beCap] =
                     [attachResponses(caps[beCap], response) EXCEPT !.Error = beResponse.err]]
       /\ beResponse' = [response |-> response, err |-> NilError]
  /\ bePc' = "send"
  /\ beSends' = [beSends EXCEPT ![beCap] = @ + 1]
  /\ touch' = {<<"be", beCap>>}
  /\ legs' = [legs EXCEPT ![beCap].be = @ + 1]
  /\ UNCHANGED <<mainPc, chanClosed, uiClosed, crashed, nProv, fePc, feCap, feStopIdx,
                 beCap, hPc, hMsg, hProv, pending, nextId, nEvents, handlerSent>>
  /\ UNCHANGED <<feSent, feRecv, beCalls, beOrder, msgCalls, owner, origin>>

\* activatedProvider.Message returned a response: its outputs are appended to
\* capsule.Responses and the loop reaches b.capsule <- capsule.
BeMessageResponse ==
  /\ Alive
  /\ UNCHANGED <<v1vars, uvars, bvars>>
  /\ UNCHANGED beWg
  /\ UNCHANGED uiCloseCalls
  /\ UNCHANGED <<provTask, hStore, feSnap, beStops>>
  /\ bePc = "Message"
  /\ \E response \in Responses :
       /\ caps' = [caps EXCEPT ![beCap] = attachResponses(caps[beCap], response)]
       /\ beResponse' = [response |-> response, err |-> NilError]
  /\ bePc' = "send"
  /\ beSends' = [beSends EXCEPT ![beCap] = @ + 1]
  /\ touch' = {<<"be", beCap>>}
  /\ legs' = [legs EXCEPT ![beCap].be = @ + 1]
  /\ UNCHANGED <<mainPc, chanClosed, uiClosed, crashed, nProv, fePc, feCap, feStopIdx,
                 beCap, hPc, hMsg, hProv, pending, nextId, nEvents, handlerSent>>
  /\ UNCHANGED <<feSent, feRecv, beCalls, beOrder, msgCalls, owner, origin>>

\* Variant: the front-end manager hands the delivery to another task and goes
\* straight back to its select.
BeSendCapsuleDetached ==
  /\ Alive
  /\ UNCHANGED <<v1vars, uvars, bvars>>
  /\ UNCHANGED beWg
  /\ UNCHANGED uiCloseCalls
  /\ UNCHANGED <<provTask, hStore, feSnap, beStops>>
  /\ bePc = "send"
  /\ fePc = "select"
  /\ ~chanClosed
  /\ bePc' = "select"
  /\ beCap' = NilUUID
  /\ feRecv' = [feRecv EXCEPT ![beCap] = @ + 1]
  /\ owner' = [owner EXCEPT ![beCap] = "fe"]
  /\ touch' = {}
  /\ UNCHANGED <<mainPc, chanClosed, uiClosed, crashed, nProv, fePc, feCap, feStopIdx,
                 beResponse, caps, hPc, hMsg, hProv, pending, nextId, nEvents,
                 handlerSent>>
  /\ UNCHANGED <<feSent, beSends, beCalls, beOrder, msgCalls, legs, origin>>

\* Variant: the back-end manager clears the capsule's responses after it has
\* sent the capsule.
BeSendCapsuleThenWrite ==
  /\ Alive
  /\ UNCHANGED <<v1vars, uvars, bvars>>
  /\ UNCHANGED beWg
  /\ UNCHANGED uiCloseCalls
  /\ UNCHANGED <<provTask, hStore, feSnap, beStops>>
  /\ bePc = "send"
  /\ fePc = "select"
  /\ ~chanClosed
  /\ bePc' = "select"
  /\ beCap' = NilUUID
  /\ fePc' = "message"
  /\ feCap' = beCap
  /\ feRecv' = [feRecv EXCEPT ![beCap] = @ + 1]
  /\ owner' = [owner EXCEPT ![beCap] = "fe"]
  /\ caps' = [caps EXCEPT ![beCap].Responses = <<>>]
  /\ touch' = {<<"be", beCap>>}
  /\ UNCHANGED <<mainPc, chanClosed, uiClosed, crashed, nProv, feStopIdx, beResponse,
                 hPc, hMsg, hProv, pending, nextId, nEvents, handlerSent>>
  /\ UNCHANGED <<feSent, beSends, beCalls, beOrder, msgCalls, legs, origin>>

\* b.capsule <- capsule meets case capsule, ok := <-f.capsule in
\* Frontend.Start; the back-end loop goes back to its select.
BeSendCapsule ==
  /\ Alive
  /\ UNCHANGED <<v1vars, uvars, bvars>>
  /\ UNCHANGED beWg
  /\ UNCHANGED uiCloseCalls
  /\ UNCHANGED <<provTask, hStore, feSnap, beStops>>
  /\ bePc = "send"
  /\ fePc = "select"
  /\ ~chanClosed
  /\ bePc' = "select"
  /\ beCap' = NilUUID
  /\ fePc' = "message"
  /\ feCap' = beCap
  /\ feRecv' = [feRecv EXCEPT ![beCap] = @ + 1]
  /\ owner' = [owner EXCEPT ![beCap] = "fe"]
  /\ touch' = {}
  /\ UNCHANGED <<mainPc, chanClosed, uiClosed, crashed, nProv, feStopIdx, beResponse,
                 caps, hPc, hMsg, hProv, pending, nextId, nEvents, handlerSent>>
  /\ UNCHANGED <<feSent, beSends, beCalls, beOrder, msgCalls, legs, origin>>

\* b.capsule <- capsule on the closed channel: panic.
BeSendPanic ==
  /\ Alive
  /\ UNCHANGED <<v1vars, uvars, bvars>>
  /\ UNCHANGED beWg
  /\ UNCHANGED uiCloseCalls
  /\ UNCHANGED <<provTask, hStore, feSnap, beStops>>
  /\ bePc = "send"
  /\ chanClosed
  /\ crashed' = TRUE
  /\ touch' = {}
  /\ UNCHANGED <<mainPc, chanClosed, uiClosed, nProv, fePc, feCap, feStopIdx, bePc,
                 beCap, beResponse, caps, hPc, hMsg, hProv, pending, nextId, nEvents,
                 handlerSent>>
  /\ UNCHANGED <<feSent, feRecv, beSends, beCalls, beOrder, msgCalls, owner, legs, origin>>

\* The select observes the closed channel (!ok): stop(b) calls stopProvider,
\* which stops the provider and calls b.wg.Done(), and reaches b.wg.Wait().
BeObserveClose ==
  /\ Alive
  /\ UNCHANGED <<v1vars, uvars, bvars>>
  /\ UNCHANGED uiCloseCalls
  /\ UNCHANGED <<provTask, hStore, feSnap>>
  /\ bePc = "select"
  /\ chanClosed
  /\ bePc' = "stop"
  /\ beStops' = beStops + 1
  /\ beWg' = beWg - 1
  /\ touch' = {}
  /\ UNCHANGED <<mainPc, chanClosed, uiClosed, crashed, nProv, fePc, feCap, feStopIdx,
                 beCap, beResponse, caps, hPc, hMsg, hProv, pending, nextId, nEvents,
                 handlerSent>>
  /\ UNCHANGED <<feSent, feRecv, beSends, beCalls, beOrder, msgCalls, owner, legs, origin>>

\* b.wg.Wait() returns (the counter is zero), break listeningLoop, Start
\* returns.
BeReturn ==
  /\ Alive
  /\ UNCHANGED <<v1vars, uvars, bvars>>
  /\ UNCHANGED beWg
  /\ UNCHANGED uiCloseCalls
  /\ UNCHANGED <<provTask, hStore, feSnap, beStops>>
  /\ bePc = "stop"
  /\ beWg = 0
  /\ bePc' = "done"
  /\ touch' = {}
  /\ UNCHANGED <<mainPc, chanClosed, uiClosed, crashed, nProv, fePc, feCap, feStopIdx,
                 beCap, beResponse, caps, hPc, hMsg, hProv, pending, nextId, nEvents,
                 handlerSent>>
  /\ UNCHANGED <<feSent, feRecv, beSends, beCalls, beOrder, msgCalls, owner, legs, origin>>

\* ------------------------------------------------------------------- main

\* <-quit returns (SIGTERM or SIGINT); close(capsuleChan).
MainClose ==
  /\ Alive
  /\ UNCHANGED <<v1vars, uvars, bvars>>
  /\ UNCHANGED beWg
  /\ UNCHANGED uiCloseCalls
  /\ UNCHANGED <<provTask, hStore, feSnap, beStops>>
  /\ mainPc = "wait"
  /\ mainPc' = "wgWait"
  /\ chanClosed' = TRUE
  /\ touch' = {}
  /\ UNCHANGED <<uiClosed, crashed, nProv, fePc, feCap, feStopIdx, bePc, beCap,
                 beResponse, caps, hPc, hMsg, hProv, pending, nextId, nEvents, handlerSent>>
  /\ UNCHANGED <<feSent, feRecv, beSends, beCalls, beOrder, msgCalls, owner, legs, origin>>

\* wg.Wait() returns once both Start calls have returned; os.Exit(0).
MainExit ==
  /\ Alive
  /\ UNCHANGED <<v1vars, uvars, bvars>>
  /\ UNCHANGED beWg
  /\ UNCHANGED uiCloseCalls
  /\ UNCHANGED <<provTask, hStore, feSnap, beStops>>
  /\ mainPc = "wgWait"
  /\ fePc = "done"
  /\ bePc = "done"
  /\ mainPc' = "exited"
  /\ touch' = {}
  /\ UNCHANGED <<chanClosed, uiClosed, crashed, nProv, fePc, feCap, feStopIdx, bePc,
                 beCap, beResponse, caps, hPc, hMsg, hProv, pending, nextId, nEvents,
                 handlerSent>>
  /\ UNCHANGED <<feSent, feRecv, beSends, beCalls, beOrder, msgCalls, owner, legs, origin>>

\* ------------------------------------------- the front-end side on its own

\* Frontend.message and the bindings' Message are applied to any capsule: the
\* other end of the shared channel receives what the front-end manager sends
\* and sends capsules drawn from PeerCapsules.
PeerCapsules ==
  { [OriginalMessage |-> id, FrontendProvider |-> l, Content |-> "hello",
     User |-> "bob", Responses |-> o.Responses, Error |-> o.Error] :
      id \in Ids, l \in {label, "messenger"},
      o \in { [Responses |-> <<"A", "B">>, Error |-> NilError],
              [Responses |-> <<>>, Error |-> "watson unavailable"] } }

\* f.capsule <- capsule in sendToBackend is received at the other end.
PeerRecv ==
  /\ Alive
  /\ UNCHANGED <<v1vars, uvars, bvars>>
  /\ UNCHANGED beWg
  /\ UNCHANGED uiCloseCalls
  /\ UNCHANGED <<provTask, hStore, feSnap, beStops>>
  /\ fePc = "sendToBackend"
  /\ ~chanClosed
  /\ fePc' = "select"
  /\ feCap' = NilUUID
  /\ feSent' = feSent \cup {feCap}
  /\ owner' = [owner EXCEPT ![feCap] = "be"]
  /\ touch' = {}
  /\ UNCHANGED <<mainPc, chanClosed, uiClosed, crashed, nProv, feStopIdx, bePc, beCap,
                 beResponse, caps, hPc, hMsg, hProv, pending, nextId, nEvents,
                 handlerSent>>
  /\ UNCHANGED <<feRecv, beSends, beCalls, beOrder, msgCalls, legs, origin>>

\* case capsule, ok := <-f.capsule (ok) in Frontend.Start receives capsule.
PeerSend(capsule) ==
  /\ Alive
  /\ UNCHANGED <<v1vars, uvars, bvars>>
  /\ UNCHANGED beWg
  /\ UNCHANGED uiCloseCalls
  /\ UNCHANGED <<provTask, hStore, feSnap, beStops>>
  /\ fePc = "select"
  /\ ~chanClosed
  /\ Len(msgCalls) < MaxReplies
  /\ caps' = [caps EXCEPT ![capsule.OriginalMessage] = capsule]
  /\ fePc' = "message"
  /\ feCap' = capsule.OriginalMessage
  /\ feRecv' = [feRecv EXCEPT ![capsule.OriginalMessage] = @ + 1]
  /\ owner' = [owner EXCEPT ![capsule.OriginalMessage] = "fe"]
  /\ touch' = {}
  /\ UNCHANGED <<mainPc, chanClosed, uiClosed, crashed, nProv, feStopIdx, bePc, beCap,
                 beResponse, hPc, hMsg, hProv, pending, nextId, nEvents, handlerSent>>
  /\ UNCHANGED <<feSent, beSends, beCalls, beOrder, msgCalls, legs, origin>>

NextOpen ==
  \/ \E h \in Handlers : HandleUpdate(h)
  \/ \E h \in Handlers : HandlerAppend(h)
  \/ \E h \in Handlers : FeRecvUserInput(h)
  \/ PeerRecv
  \/ \E capsule \in PeerCapsules : PeerSend(capsule)
  \/ FeLoadPending
  \/ FeMessage

\* ----------------------------------------------------------- frontend.New

\* frontend.providerCollection: the labels of the implemented providers.
providerCollection == {"telegram"}

\* The entries a configuration file can hold.  Telegram.Initialize fails when
\* tb.NewBot rejects the token.
ProviderConfigs ==
  [Label : {"telegram", "messenger"}, IsActivated : BOOLEAN,
   Token : {"valid", "invalid"}]

ConfigFiles ==
  UNION { [1..n -> ProviderConfigs] : n \in 0..MaxConfig }

NotLoaded == [called |-> FALSE, providers |-> <<>>, err |-> NilError, inits |-> <<>>]

\* errors.NotFoundf: provider called <label> not found
providerNotFound(pc) ==
  IF pc.Label = "telegram" THEN "provider called telegram not found"
  ELSE "provider called messenger not found"

\* Telegram.Initialize: the error returned (NilError: a new instance).
Initialize(pc) ==
  IF pc.Token = "valid" THEN NilError ELSE "initializing telegram: bad token"

\* errors.Annotate(err, fmt.Sprintf("loading provider %s", pc.Label))
loadingProvider(pc) == "loading provider telegram: initializing telegram: bad token"

\* Variant: an entry is initialized whether or not it is activated.
RECURSIVE loadFromAll(_, _, _, _)
loadFromAll(config, i, providers, inits) ==
  IF i > Len(config)
  THEN [called |-> TRUE, providers |-> providers, err |-> NilError, inits |-> inits]
  ELSE LET pc == config[i]
       IN IF pc.Label \notin providerCollection
          THEN [called |-> TRUE, providers |-> <<>>, err |-> providerNotFound(pc),
                inits |-> inits]
          ELSE IF Initialize(pc) # NilError
          THEN [called |-> TRUE, providers |-> <<>>, err |-> loadingProvider(pc),
                inits |-> Append(inits, i)]
          ELSE loadFromAll(config, i + 1,
                           Append(providers, [label |-> pc.Label, entry |-> i]),
                           Append(inits, i))

\* The loop of loadProvider from entry i on: providers is the slice built so
\* far, inits the entries Initialize has been called for.
RECURSIVE loadFrom(_, _, _, _)
loadFrom(config, i, providers, inits) ==
  IF i > Len(config)
  THEN [called |-> TRUE, providers |-> providers, err |-> NilError, inits |-> inits]
  ELSE LET pc == config[i]
       IN IF pc.Label \notin providerCollection
          THEN [called |-> TRUE, providers |-> <<>>, err |-> providerNotFound(pc),
                inits |-> inits]
          ELSE IF ~pc.IsActivated
          THEN loadFrom(config, i + 1, providers, inits)
          ELSE IF Initialize(pc) # NilError
          THEN [called |-> TRUE, providers |-> <<>>, err |-> loadingProvider(pc),
                inits |-> Append(inits, i)]
          ELSE loadFrom(config, i + 1,
                        Append(providers, [label |-> pc.Label, entry |-> i]),
                        Append(inits, i))

\* Variant: on a failure the providers initialized so far are returned with
\* the error.
RECURSIVE loadFromPartial(_, _, _, _)
loadFromPartial(config, i, providers, inits) ==
  IF i > Len(config)
  THEN [called |-> TRUE, providers |-> providers, err |-> NilError, inits |-> inits]
  ELSE LET pc == config[i]
       IN IF pc.Label \notin providerCollection
          THEN [called |-> TRUE, providers |-> providers, err |-> providerNotFound(pc),
                inits |-> inits]
          ELSE IF ~pc.IsActivated
          THEN loadFromPartial(config, i + 1, providers, inits)
          ELSE IF Initialize(pc) # NilError
          THEN [called |-> TRUE, providers |-> providers, err |-> loadingProvider(pc),
                inits |-> Append(inits, i)]
          ELSE loadFromPartial(config, i + 1,
                               Append(providers, [label |-> pc.Label, entry |-> i]),
                               Append(inits, i))

loadProviderPartial(config) == loadFromPartial(config, 1, <<>>, <<>>)

\* frontend.loadProvider
loadProvider(config) == loadFrom(config, 1, <<>>, <<>>)

\* What main holds before a New call has returned.
NoError == [cause |-> NilError, message |-> <<>>]
NotCalled == [called |-> FALSE, manager |-> "nil", providers |-> <<>>, err |-> NoError]

InitMain ==
  /\ startPc = "newFront"
  /\ front = NotCalled
  /\ back = NotCalled
  /\ tasks = {}

\* frontend.New: loadProvider on the configuration loadConfig returned.
New ==
  /\ UNCHANGED <<prog, hist, v1vars, bvars>>
  /\ ~loaded.called
  /\ loaded' = loadProvider(providerConfig)
  /\ UNCHANGED <<providerConfig, backendConfig, startPc, front, back, tasks>>

\* ------------------------------------------------------ main, up to <-quit

\* backend.providerCollection
backendProviderCollection == {"watson"}

\* The configurations the back-end's file can hold.  Watson.Initialize fails
\* when the service refuses the credentials (NewAssistantV2, CreateSession).
BackendConfigs == [Label : {"watson", "dialogflow"}, Token : {"valid", "invalid"}]

\* errors.NotFoundf in backend.loadProvider
backendProviderNotFound(config) ==
  IF config.Label = "watson" THEN "provider called watson not found"
  ELSE "provider called dialogflow not found"

\* Watson.Initialize: the error returned (NilError: a new client).
WatsonInitialize(config) ==
  IF config.Token = "valid" THEN NilError
  ELSE "initializing a new IBM Watson service: unauthorized"

\* Variant: an unknown label falls back to the registered provider.
backendLoadProviderDefault(config) ==
  IF WatsonInitialize(config) # NilError
  THEN [provider |-> "nil",
        err |-> "loading provider watson: initializing a new IBM Watson service: unauthorized"]
  ELSE [provider |-> "watson", err |-> NilError]

\* backend.loadProvider
backendLoadProvider(config) ==
  IF config.Label \notin backendProviderCollection
  THEN [provider |-> "nil", err |-> backendProviderNotFound(config)]
  ELSE IF WatsonInitialize(config) # NilError
  THEN [provider |-> "nil",
        err |-> "loading provider watson: initializing a new IBM Watson service: unauthorized"]
  ELSE [provider |-> "watson", err |-> NilError]

\* errors.Cause of the errors the loadProvider functions return: the error
\* made by errors.NotFoundf is its own cause, an annotated error has the cause
\* of the error it annotates.
Cause(err) ==
  IF err = "loading provider telegram: initializing telegram: bad token"
  THEN "bad token"
  ELSE IF err = "loading provider watson: initializing a new IBM Watson service: unauthorized"
  THEN "unauthorized"
  ELSE err

\* errors.Annotate(err, message)
Annotate(err, message) == [cause |-> Cause(err), message |-> <<message, ": ", err>>]

\* The errors errors.NotFoundf makes in the two loadProvider functions.
NotFoundErrors ==
  { providerNotFound(pc) : pc \in ProviderConfigs } \cup
  { backendProviderNotFound(config) : config \in BackendConfigs }

\* errors.IsNotFound
IsNotFound(err) == err.cause \in NotFoundErrors

\* frontend.New on the configuration loadConfig returned.
frontendNew(config) ==
  LET r == loadProvider(config)
  IN IF r.err # NilError
     THEN [called |-> TRUE, manager |-> "nil", providers |-> <<>>,
           err |-> Annotate(r.err, "initiliazing frontend")]
     ELSE [called |-> TRUE, manager |-> "Frontend", providers |-> r.providers,
           err |-> NoError]

\* backend.New on the configuration loadConfig returned.
backendNew(config) ==
  LET r == backendLoadProvider(config)
  IN IF r.err # NilError
     THEN [called |-> TRUE, manager |-> "nil", providers |-> <<>>,
           err |-> Annotate(r.err, "initiliazing frontend")]
     ELSE [called |-> TRUE, manager |-> "Backend",
           providers |-> << [label |-> r.provider, entry |-> 1] >>,
           err |-> NoError]

MainFrame == UNCHANGED <<prog, hist, v1vars, bvars, providerConfig, loaded, backendConfig>>

\* front, err := frontend.New(capsuleChan); if err != nil { panic(err) }
MainNewFrontend ==
  /\ MainFrame
  /\ startPc = "newFront"
  /\ front' = frontendNew(providerConfig)
  /\ startPc' = IF front'.err # NoError THEN "panic" ELSE "newBack"
  /\ UNCHANGED <<back, tasks>>

\* Variant: a failure of backend.New is logged and main goes on.
MainNewBackendLogOnly ==
  /\ MainFrame
  /\ startPc = "newBack"
  /\ back' = backendNew(backendConfig)
  /\ startPc' = "goFront"
  /\ UNCHANGED <<front, tasks>>

\* back, err := backend.New(capsuleChan); if err != nil { panic(err) }
MainNewBackend ==
  /\ MainFrame
  /\ startPc = "newBack"
  /\ back' = backendNew(backendConfig)
  /\ startPc' = IF back'.err # NoError THEN "panic" ELSE "goFront"
  /\ UNCHANGED <<front, tasks>>

\* wg.Add(1); go front.Start(&wg)
MainGoFront ==
  /\ MainFrame
  /\ startPc = "goFront"
  /\ tasks' = tasks \cup {<<"front.Start", 0>>}
  /\ startPc' = "goBack"
  /\ UNCHANGED <<front, back>>

\* wg.Add(1); go back.Start(&wg); main reaches <-quit.
MainGoBack ==
  /\ MainFrame
  /\ startPc = "goBack"
  /\ tasks' = tasks \cup {<<"back.Start", 0>>}
  /\ startPc' = "quit"
  /\ UNCHANGED <<front, back>>

\* Frontend.Start, one iteration of its first loop: f.wg.Add(1) and
\* go provider.Start() for the next activated provider.
FrontStartProvider(i) ==
  /\ MainFrame
  /\ <<"front.Start", 0>> \in tasks
  /\ i \in 1..Len(front.providers)
  /\ <<"provider.Start", i>> \notin tasks
  /\ \A j \in 1..(i - 1) : <<"provider.Start", j>> \in tasks
  /\ tasks' = tasks \cup {<<"provider.Start", i>>}
  /\ UNCHANGED <<startPc, front, back>>

NextMain ==
  \/ MainNewFrontend
  \/ MainNewBackend
  \/ MainGoFront
  \/ MainGoBack
  \/ \E i \in 1..MaxConfig : FrontStartProvider(i)

\* ------------------------------------------------------ earlier revision

ErrorType == "Error"
V1Frame == UNCHANGED <<prog, hist, uvars, bvars>>

\* The events a front-end provider can hand to the manager on userInput
\* (provider.CapsuleProvider of the earlier revision).
V1Inbound ==
  [RespondTo : {NilUUID, 1}, ProviderLabel : {"", label},
   ContentType : {"", "Text", "Image", "Audio"}, Content : {"", "hello"},
   User : {"", "bob"}]

NoDocument == [respondTo |-> NilUUID, label |-> "", contentType |-> "", input |-> "",
               user |-> "", error |-> ""]
NoCapsuleIn == [RespondTo |-> NilUUID, ProviderLabel |-> "", ContentType |-> "",
                Content |-> "", User |-> ""]

\* yaml.Marshal of a provider.CapsuleProvider: a mapping keyed by the yaml tags.
marshalCapsuleProvider(capsule) ==
  [respondTo |-> capsule.RespondTo, label |-> capsule.ProviderLabel,
   contentType |-> capsule.ContentType, input |-> capsule.Content,
   user |-> capsule.User, error |-> ""]

\* yaml.Unmarshal into a backend.CapsuleIn, by the yaml tags.
unmarshalCapsuleIn(data) ==
  [RespondTo |-> data.respondTo, ProviderLabel |-> data.label,
   ContentType |-> data.contentType, Content |-> data.input, User |-> data.user]

\* uuid.UUID.Version: 0 for uuid.Nil, 4 for an identifier of uuid.NewRandom.
Version(uuid) == IF uuid = NilUUID THEN 0 ELSE 4
\* uuid.Version.String
VersionString(version) == <<"VERSION_", version>>

\* Variant: a nil identifier is rejected.
capsuleIsValidNilRejected(capsule) ==
  IF capsule.RespondTo = NilUUID
  THEN "uuid not valid"
  ELSE IF capsule.Content = "" THEN "content not provisioned"
  ELSE IF capsule.ContentType = "" THEN "input type not assigned"
  ELSE IF capsule.ProviderLabel = "" THEN "provider not assigned"
  ELSE IF capsule.User = "" THEN "user not assigned"
  ELSE NilError

\* backend.capsuleIsValid: the error returned (NilError: valid).
capsuleIsValid(capsule) ==
  IF capsule.RespondTo = NilUUID /\ VersionString(Version(capsule.RespondTo)) = <<"VERSION_", 4>>
  THEN "uuid not valid"
  ELSE IF capsule.Content = "" THEN "content not provisioned"
  ELSE IF capsule.ContentType = "" THEN "input type not assigned"
  ELSE IF capsule.ProviderLabel = "" THEN "provider not assigned"
  ELSE IF capsule.User = "" THEN "user not assigned"
  ELSE NilError

\* Backend.unmarshalCapsule
unmarshalCapsule(data) ==
  LET capsule == unmarshalCapsuleIn(data)
  IN [capsule |-> capsule, err |-> capsuleIsValid(capsule)]

\* Backend.message of the earlier revision: whether the provider is called
\* for the capsule, and the error returned without calling it.  Start does
\* not call it: it calls activatedProvider.Message itself.
backendMessage(capsule) ==
  IF capsule.ContentType = "Text" THEN [call |-> TRUE, err |-> NilError]
  ELSE IF capsule.ContentType \in {"Image", "Audio"}
  THEN [call |-> FALSE, err |-> "message handling not implemented"]
  ELSE [call |-> FALSE, err |-> "input type not found"]

\* Backend.errorHandler of the earlier revision: the CapsuleOut document.
\* The error value has no exported field, so yaml encodes it as an empty mapping.
errorHandlerDocument(original, err) ==
  [respondTo |-> original.RespondTo, label |-> original.ProviderLabel,
   contentType |-> ErrorType, input |-> original.Content, user |-> original.User,
   error |-> "{}"]

InitEarlier ==
  /\ v1MainPc = "wait"
  /\ v1ErrClosed = FALSE
  /\ v1CapClosed = FALSE
  /\ v1Crashed = FALSE
  /\ v1FePc = "select"
  /\ v1FeData = NoDocument
  /\ v1BePc = "select"
  /\ v1BeCapsule = NoCapsuleIn
  /\ v1BeData = NoDocument
  /\ v1Calls = <<>>
  /\ v1Dropped = 0
  /\ v1FeErrors = <<>>
  /\ v1Events = 0

V1Alive == ~v1Crashed /\ v1MainPc # "exited"

\* Frontend.Start, case capsule, ok := <-f.userInput: sendToBackend marshals
\* the event and reaches f.capsuleOutChan <- data.
V1FeRecvUserInput ==
  /\ V1Alive
  /\ V1Frame
  /\ v1FePc = "select"
  /\ v1Events < MaxEvents
  /\ \E capsule \in V1Inbound : v1FeData' = marshalCapsuleProvider(capsule)
  /\ v1FePc' = "sendToBackend"
  /\ v1Events' = v1Events + 1
  /\ UNCHANGED <<v1MainPc, v1ErrClosed, v1CapClosed, v1Crashed, v1BePc, v1BeCapsule,
                 v1BeData, v1Calls, v1Dropped, v1FeErrors>>

\* f.capsuleOutChan <- data meets case data, ok := <-b.capsuleInChan: the
\* back-end manager unmarshals the capsule, drops it when it is not valid and
\* otherwise calls activatedProvider.Message(string(capsule.Content)).
V1FeSendCapsule ==
  /\ V1Alive
  /\ V1Frame
  /\ v1FePc = "sendToBackend"
  /\ v1BePc = "select"
  /\ ~v1CapClosed
  /\ v1FePc' = "select"
  /\ v1FeData' = NoDocument
  /\ LET r == unmarshalCapsule(v1FeData)
     IN IF r.err # NilError
        THEN /\ v1Dropped' = v1Dropped + 1
             /\ UNCHANGED <<v1BePc, v1BeCapsule, v1Calls>>
        ELSE /\ v1BePc' = "Message"
             /\ v1BeCapsule' = r.capsule
             /\ v1Calls' = Append(v1Calls, [contentType |-> r.capsule.ContentType,
                                            text |-> r.capsule.Content])
             /\ UNCHANGED v1Dropped
  /\ UNCHANGED <<v1MainPc, v1ErrClosed, v1CapClosed, v1Crashed, v1BeData, v1FeErrors,
                 v1Events>>

\* f.capsuleOutChan <- data on the closed channel: panic.
V1FeSendPanic ==
  /\ V1Alive
  /\ V1Frame
  /\ v1FePc = "sendToBackend"
  /\ v1CapClosed
  /\ v1Crashed' = TRUE
  /\ UNCHANGED <<v1MainPc, v1ErrClosed, v1CapClosed, v1FePc, v1FeData, v1BePc,
                 v1BeCapsule, v1BeData, v1Calls, v1Dropped, v1FeErrors, v1Events>>

\* The provider call failed: errorHandler marshals a CapsuleOut and reaches
\* b.backendErrorChan <- data.
V1BeMessageError ==
  /\ V1Alive
  /\ V1Frame
  /\ v1BePc = "Message"
  /\ \E err \in ProviderErrors : v1BeData' = errorHandlerDocument(v1BeCapsule, err)
  /\ v1BePc' = "errorHandler"
  /\ UNCHANGED <<v1MainPc, v1ErrClosed, v1CapClosed, v1Crashed, v1FePc, v1FeData,
                 v1BeCapsule, v1Calls, v1Dropped, v1FeErrors, v1Events>>

\* The provider call succeeded: the response is logged.
V1BeMessageResponse ==
  /\ V1Alive
  /\ V1Frame
  /\ v1BePc = "Message"
  /\ v1BePc' = "select"
  /\ v1BeCapsule' = NoCapsuleIn
  /\ UNCHANGED <<v1MainPc, v1ErrClosed, v1CapClosed, v1Crashed, v1FePc, v1FeData,
                 v1BeData, v1Calls, v1Dropped, v1FeErrors, v1Events>>

\* b.backendErrorChan <- data meets case data, ok := <-f.backendErrorChan.
V1BeSendError ==
  /\ V1Alive
  /\ V1Frame
  /\ v1BePc = "errorHandler"
  /\ v1FePc = "select"
  /\ ~v1ErrClosed
  /\ v1BePc' = "select"
  /\ v1BeCapsule' = NoCapsuleIn
  /\ v1BeData' = NoDocument
  /\ v1FeErrors' = Append(v1FeErrors, v1BeData)
  /\ UNCHANGED <<v1MainPc, v1ErrClosed, v1CapClosed, v1Crashed, v1FePc, v1FeData,
                 v1Calls, v1Dropped, v1Events>>

\* b.backendErrorChan <- data on the closed channel: panic.
V1BeSendErrorPanic ==
  /\ V1Alive
  /\ V1Frame
  /\ v1BePc = "errorHandler"
  /\ v1ErrClosed
  /\ v1Crashed' = TRUE
  /\ UNCHANGED <<v1MainPc, v1ErrClosed, v1CapClosed, v1FePc, v1FeData, v1BePc,
                 v1BeCapsule, v1BeData, v1Calls, v1Dropped, v1FeErrors, v1Events>>

\* Frontend.Start observes backendErrorChan closed, stops and returns.
V1FeObserveClose ==
  /\ V1Alive
  /\ V1Frame
  /\ v1FePc = "select"
  /\ v1ErrClosed
  /\ v1FePc' = "done"
  /\ UNCHANGED <<v1MainPc, v1ErrClosed, v1CapClosed, v1Crashed, v1FeData, v1BePc,
                 v1BeCapsule, v1BeData, v1Calls, v1Dropped, v1FeErrors, v1Events>>

\* Backend.Start observes capsuleInChan closed, stops and returns.
V1BeObserveClose ==
  /\ V1Alive
  /\ V1Frame
  /\ v1BePc = "select"
  /\ v1CapClosed
  /\ v1BePc' = "done"
  /\ UNCHANGED <<v1MainPc, v1ErrClosed, v1CapClosed, v1Crashed, v1FePc, v1FeData,
                 v1BeCapsule, v1BeData, v1Calls, v1Dropped, v1FeErrors, v1Events>>

\* main: <-quit returns; close(backendErrorChan).
V1MainCloseError ==
  /\ V1Alive
  /\ V1Frame
  /\ v1MainPc = "wait"
  /\ v1MainPc' = "closing"
  /\ v1ErrClosed' = TRUE
  /\ UNCHANGED <<v1CapClosed, v1Crashed, v1FePc, v1FeData, v1BePc, v1BeCapsule,
                 v1BeData, v1Calls, v1Dropped, v1FeErrors, v1Events>>

\* main: close(capsuleChan).
V1MainCloseCapsule ==
  /\ V1Alive
  /\ V1Frame
  /\ v1MainPc = "closing"
  /\ v1MainPc' = "wgWait"
  /\ v1CapClosed' = TRUE
  /\ UNCHANGED <<v1ErrClosed, v1Crashed, v1FePc, v1FeData, v1BePc, v1BeCapsule,
                 v1BeData, v1Calls, v1Dropped, v1FeErrors, v1Events>>

\* main: wg.Wait() returns; os.Exit(0).
V1MainExit ==
  /\ V1Alive
  /\ V1Frame
  /\ v1MainPc = "wgWait"
  /\ v1FePc = "done"
  /\ v1BePc = "done"
  /\ v1MainPc' = "exited"
  /\ UNCHANGED <<v1ErrClosed, v1CapClosed, v1Crashed, v1FePc, v1FeData, v1BePc,
                 v1BeCapsule, v1BeData, v1Calls, v1Dropped, v1FeErrors, v1Events>>

NextV1 ==
  \/ V1FeRecvUserInput
  \/ V1FeSendCapsule
  \/ V1FeSendPanic
  \/ V1BeMessageError
  \/ V1BeMessageResponse
  \/ V1BeSendError
  \/ V1BeSendErrorPanic
  \/ V1FeObserveClose
  \/ V1BeObserveClose
  \/ V1MainCloseError
  \/ V1MainCloseCapsule
  \/ V1MainExit

\* ---------------------------------------------------------- specification

HandlerStep ==
  \E h \in Handlers : HandleUpdate(h) \/ HandlerAppend(h) \/ HandlerSendPanic(h)
ProviderStep == \E p \in Providers : ProviderStartReturn(p)
FrontendStep ==
  \/ \E h \in Handlers : FeRecvUserInput(h)
  \/ FeSendCapsule
  \/ FeSendPanic
  \/ FeLoadPending
  \/ FeMessage
  \/ FeObserveClose
  \/ FeStopProvider
  \/ FeReturn
BackendStep ==
  \/ BeMessageError
  \/ BeMessageResponse
  \/ BeSendCapsule
  \/ BeSendPanic
  \/ BeObserveClose
  \/ BeReturn
MainStep == MainClose \/ MainExit

Next == HandlerStep \/ ProviderStep \/ FrontendStep \/ BackendStep \/ MainStep

\* ------------------------------------------------- one binding on its own

\* The pending tables processUserMessage can have built: entries with
\* distinct identifiers, in any order, each from a sender the binding's
\* allowlist can hold.
PendingIds == 1..MaxPending
PendingEntries ==
  { [uuid |-> u, contentType |-> "Text", content |-> "hello", user |-> s] :
      u \in PendingIds, s \in { x \in Senders : x.ID = 1 } }
PendingTables ==
  { t \in UNION { [1..n -> PendingEntries] : n \in 0..MaxPending } :
      \A i, j \in 1..Len(t) : i # j => t[i].uuid # t[j].uuid }

\* The capsules Frontend.message can hand to the binding: a reply of no, one
\* or two bubbles, or an error.
ReplyCapsules ==
  { [OriginalMessage |-> id, FrontendProvider |-> label, Content |-> "hello",
     User |-> "bob", Responses |-> o.Responses, Error |-> o.Error] :
      id \in PendingIds,
      o \in { [Responses |-> <<>>, Error |-> NilError],
              [Responses |-> <<"A">>, Error |-> NilError],
              [Responses |-> <<"A", "B">>, Error |-> NilError],
              [Responses |-> <<>>, Error |-> "watson unavailable"] } }

BindingFrame == UNCHANGED <<prog, hist, v1vars, uvars, reply>>

\* t.findPendingMessage(reply.OriginalMessage)
CallFindPendingMessage ==
  /\ BindingFrame
  /\ Len(calls) < MaxCalls
  /\ LET f == findPendingMessage(table, reply.OriginalMessage)
     IN /\ table' = f.pendingMessages
        /\ calls' = Append(calls, [op |-> "findPendingMessage",
                                   uuid |-> reply.OriginalMessage,
                                   before |-> table, after |-> f.pendingMessages,
                                   found |-> f.found, m |-> f.m,
                                   sends |-> <<>>, err |-> f.err])

\* t.Message(reply)
CallMessage ==
  /\ BindingFrame
  /\ Len(calls) < MaxCalls
  /\ LET r == TelegramMessage(table, reply)
     IN /\ table' = r.pendingMessages
        /\ calls' = Append(calls, [op |-> "Message",
                                   uuid |-> reply.OriginalMessage,
                                   before |-> table, after |-> r.pendingMessages,
                                   sends |-> r.sends, err |-> r.err])

NextBinding == CallFindPendingMessage \/ CallMessage

\* main has reached <-quit: both New calls have succeeded, on a front-end
\* configuration of nProv activated entries, and the tasks are started.
InitNew ==
  /\ providerConfig =
       [i \in 1..nProv |-> [Label |-> "telegram", IsActivated |-> TRUE, Token |-> "valid"]]
  /\ loaded = NotLoaded
  /\ backendConfig = [Label |-> "watson", Token |-> "valid"]
  /\ front = frontendNew(providerConfig)
  /\ back = backendNew(backendConfig)
  /\ startPc = "quit"
  /\ tasks = {<<"front.Start", 0>>, <<"back.Start", 0>>} \cup
             { <<"provider.Start", i>> : i \in 1..nProv }

\* The binding on its own is not in use.
InitBinding ==
  /\ table = <<>>
  /\ reply = NoCapsule
  /\ calls = <<>>

Init == InitLater /\ InitEarlier /\ InitNew /\ InitBinding

\* frontend.New on any configuration file.
InitAnyConfig ==
  /\ InitLater
  /\ InitEarlier
  /\ providerConfig \in ConfigFiles
  /\ loaded = NotLoaded
  /\ backendConfig = [Label |-> "watson", Token |-> "valid"]
  /\ InitMain
  /\ InitBinding

SpecNew == InitAnyConfig /\ [][New]_vars

\* main on any pair of configuration files.
InitAnyMain ==
  /\ InitLater
  /\ InitEarlier
  /\ providerConfig \in ConfigFiles
  /\ loaded = NotLoaded
  /\ backendConfig \in BackendConfigs
  /\ InitMain
  /\ InitBinding

SpecMain == InitAnyMain /\ [][NextMain]_vars

\* The front-end manager and its bindings, for any capsule received on the
\* shared channel.
SpecOpen == Init /\ [][NextOpen]_vars

\* The revision in force: one shared capsule channel.
Spec == Init /\ [][Next]_vars

\* The earlier revision: two channels of YAML documents.
SpecV1 == Init /\ [][NextV1]_vars

\* One binding on its own, on any pending table and any capsule.
InitAnyBinding ==
  /\ InitLater
  /\ InitEarlier
  /\ InitNew
  /\ table \in PendingTables
  /\ reply \in ReplyCapsules
  /\ calls = <<>>

SpecBinding == InitAnyBinding /\ [][NextBinding]_vars

\* Every goroutine that can take a step eventually takes one (the Go
\* scheduler), and a provider call returns.  Users need not send updates and
\* the termination signal need not come.
Fairness ==
  /\ \A h \in Handlers :
       WF_vars(HandlerAppend(h)) /\ WF_vars(HandlerSendPanic(h)) /\ WF_vars(FeRecvUserInput(h))
  /\ \A p \in Providers : WF_vars(ProviderStartReturn(p))
  /\ WF_vars(FeLoadPending)
  /\ WF_vars(FeSendCapsule)
  /\ WF_vars(FeSendPanic)
  /\ WF_vars(FeMessage)
  /\ WF_vars(FeObserveClose)
  /\ WF_vars(FeStopProvider)
  /\ WF_vars(FeReturn)
  /\ WF_vars(BeMessageError \/ BeMessageResponse)
  /\ WF_vars(BeSendCapsule)
  /\ WF_vars(BeSendPanic)
  /\ WF_vars(BeObserveClose)
  /\ WF_vars(BeReturn)
  /\ WF_vars(MainExit)

FairSpec == Spec /\ Fairness

\* ------------------------------------------------------------ properties

\* The completed Frontend.message calls for identifier id.
MsgCallsFor(id) == { j \in 1..Len(msgCalls) : msgCalls[j].id = id }

\* The capsule the back-end manager is returning, or the front-end manager
\* has just received from it (0: none).
Returning ==
  IF bePc = "send" THEN beCap ELSE IF fePc = "message" THEN feCap ELSE NilUUID

\* The output texts of a provider response, in the provider's order.
OutputTexts(response) == [i \in 1..Len(response.Outputs) |-> response.Outputs[i].Text]

\* C1: while the shared channel stays open, every capsule the front-end
\* manager has sent is eventually received back by it, exactly once, and no
\* capsule is ever received back twice.
C1_ExactlyOneReturn ==
  /\ \A id \in Ids : [](id \in feSent => <>(feRecv[id] = 1 \/ chanClosed))
  /\ [](\A id \in Ids : feRecv[id] <= 1)

\* C2: a capsule returned after a successful provider call carries exactly
\* the output texts of the response, in the provider's order, and no error.
C2_RoundTripResponses ==
  (Returning # NilUUID /\ beResponse.err = NilError) =>
    /\ caps[Returning].Responses = OutputTexts(beResponse.response)
    /\ caps[Returning].Error = NilError

C2_Witness ==
  /\ fePc = "message"
  /\ beResponse.err = NilError
  /\ Len(beResponse.response.Outputs) = 2
  /\ caps[feCap].Responses = <<"A", "B">>

\* C3: a capsule returned after a failed provider call carries the
\* provider's error and no responses.
C3_ErrorPropagation ==
  (Returning # NilUUID /\ beResponse.err # NilError) =>
    /\ caps[Returning].Error = beResponse.err
    /\ caps[Returning].Error # NilError
    /\ caps[Returning].Responses = <<>>

C3_Witness ==
  /\ fePc = "message"
  /\ beResponse.err \in ProviderErrors
  /\ caps[feCap].Error \in ProviderErrors

\* C4: for every capsule the back-end manager has received, it has begun no
\* send while the provider call is running and exactly one send from then on,
\* and the capsule never carries both an error and responses.
C4_ExactlyOneSend ==
  \A i \in 1..Len(beOrder) :
    LET id == beOrder[i]
    IN /\ beSends[id] = (IF bePc = "Message" /\ beCap = id THEN 0 ELSE 1)
       /\ ~(caps[id].Error # NilError /\ caps[id].Responses # <<>>)

C4_Witness ==
  /\ Len(beOrder) = 2
  /\ bePc = "select"
  /\ caps[beOrder[1]].Error # NilError
  /\ caps[beOrder[2]].Responses # <<>>
  /\ \A i \in 1..2 : beSends[beOrder[i]] = 1

\* C5: the back-end provider's Message is never invoked for a capsule whose
\* content type is image or audio.
C5_UnsupportedNeverReachesProvider ==
  \A i \in 1..Len(v1Calls) : v1Calls[i].contentType \notin {"Image", "Audio"}

\* C6: once the shared channel is closed, both managers eventually return
\* from Start.
C6_ShutdownLiveness == [](chanClosed => <>(fePc = "done" /\ bePc = "done"))

\* C7: once the shared channel is closed, no manager is at a send on it.
C7_NoSendOnClosed == chanClosed => (fePc # "sendToBackend" /\ bePc # "send")

\* C8: while the shared channel stays open, a capsule for which the provider
\* call succeeded is eventually delivered by exactly one Message call of the
\* binding it came from, which sends its responses, in order, to the user it
\* came from; and no identifier ever gets two delivery calls.
Succeeded(id) ==
  /\ \E i \in 1..Len(beOrder) : beOrder[i] = id
  /\ beSends[id] = 1
  /\ caps[id].Error = NilError

Delivered(id) ==
  /\ Cardinality(MsgCallsFor(id)) = 1
  /\ \A j \in MsgCallsFor(id) :
       /\ msgCalls[j].prov = origin[id].prov
       /\ msgCalls[j].err = NilError
       /\ msgCalls[j].sends =
            [i \in 1..Len(caps[id].Responses) |->
               [to |-> origin[id].user, text |-> Plain(caps[id].Responses[i])]]

C8_EndToEndDelivery ==
  /\ \A id \in Ids : [](Succeeded(id) => <>(Delivered(id) \/ chanClosed))
  /\ [](\A id \in Ids : Cardinality(MsgCallsFor(id)) <= 1)

\* C9: when the back-end manager is inside the provider call for a capsule,
\* the delivery call of every capsule it processed before has completed, and
\* the back-end manager holds at most one capsule at any time.
C9_RoundTripOrdering ==
  /\ bePc = "Message" =>
       \A i \in 1..(Len(beOrder) - 1) :
         /\ feRecv[beOrder[i]] = 1
         /\ MsgCallsFor(beOrder[i]) # {}
  /\ Cardinality({ id \in Ids : owner[id] = "be" }) <= 1

C9_Witness ==
  /\ bePc = "Message"
  /\ Len(beOrder) = 2
  /\ MsgCallsFor(beOrder[1]) # {}

Identity(capsule) ==
  <<capsule.OriginalMessage, capsule.FrontendProvider, capsule.Content, capsule.User>>

\* C11: once the front-end manager has created a capsule, no step (so none of
\* the back-end manager, on the success or on the error path) changes its
\* originalMessage, frontendProvider, content or user, and these are the
\* values of the inbound event the capsule was built from.
C11_BackendFrame ==
  /\ [](\A id \in Ids : owner[id] # "none" =>
          /\ caps[id].OriginalMessage = id
          /\ caps[id].FrontendProvider = label
          /\ caps[id].Content \in UserTexts
          /\ caps[id].User = origin[id].user.Username)
  /\ [][\A id \in Ids : owner[id] # "none" => Identity(caps'[id]) = Identity(caps[id])]_vars

C11_Witness ==
  \E id1, id2 \in Ids :
    /\ feRecv[id1] = 1 /\ caps[id1].Error # NilError
    /\ feRecv[id2] = 1 /\ caps[id2].Responses # <<>>
    /\ Identity(caps[id1]) = <<id1, label, "hello", "bob">>
    /\ Identity(caps[id2]) = <<id2, label, "hello", "bob">>

\* C12: once a lookup for an identifier has returned its pending entry, every
\* later lookup for that identifier in the same binding misses.
C12_PendingIdempotence ==
  \A j, k \in 1..Len(msgCalls) :
    ( /\ j < k
      /\ msgCalls[j].prov # 0
      /\ msgCalls[k].prov = msgCalls[j].prov
      /\ msgCalls[k].capsule.OriginalMessage = msgCalls[j].capsule.OriginalMessage
      /\ msgCalls[j].err = NilError )
    => msgCalls[k].err # NilError

\* The pending table of binding p holds an entry for identifier id.
HasEntry(p, id) == \E i \in 1..Len(pending[p]) : pending[p][i].uuid = id

\* The event or the capsule with identifier id is on userInput (a handler is
\* at its send), on the shared channel on its way to the back-end manager, or
\* at the back-end manager.
Underway(id) ==
  \/ \E h \in Handlers : hPc[h] = "send" /\ hMsg[h].OriginalMessage = id
  \/ fePc = "sendToBackend" /\ feCap = id
  \/ owner[id] = "be"

\* C13: every event or capsule that is on userInput, on the shared channel
\* or at the back-end has an entry for its identifier in the pending table
\* of the binding it came from.
C13_PendingBeforeHandOff ==
  \A id \in Ids : Underway(id) => HasEntry(origin[id].prov, id)

\* The step in which a binding's Message returns, for a capsule whose
\* identifier has no entry in the pending table findPendingMessage read.
MessageMisses ==
  /\ fePc = "cut"
  /\ fePc' # "cut"
  /\ \A i \in 1..Len(feSnap) : feSnap[i].uuid # caps[feCap].OriginalMessage

\* C14: a reply capsule whose identifier has no pending entry makes Message
\* return an error, send nothing to any user and leave every pending table
\* as it is, and the dispatch loop goes back to its select.
C14_LookupMiss ==
  [][MessageMisses =>
       /\ Len(msgCalls') = Len(msgCalls) + 1
       /\ msgCalls'[Len(msgCalls')].err # NilError
       /\ msgCalls'[Len(msgCalls')].sends = <<>>
       /\ pending' = pending
       /\ handlerSent' = handlerSent
       /\ fePc' = "select"
       /\ ~crashed']_vars

\* A reply was delivered, a second reply for the same identifier missed, and
\* the loop has taken the next inbound event.
C14_Witness ==
  /\ Len(msgCalls) = 2
  /\ msgCalls[1].err = NilError
  /\ msgCalls[2].prov # 0
  /\ msgCalls[2].capsule.OriginalMessage = msgCalls[1].capsule.OriginalMessage
  /\ msgCalls[2].err # NilError
  /\ msgCalls[2].sends = <<>>
  /\ fePc = "sendToBackend"

\* C15: a delivery call that found the pending entry sends, when the capsule
\* carries an error, exactly one system log notice of status Error built from
\* that error, to the user of the entry, and none of the responses; when the
\* capsule carries no error it sends the responses, in order, and no notice.
C15_ErrorNotice ==
  \A j \in 1..Len(msgCalls) :
    (msgCalls[j].prov # 0 /\ msgCalls[j].err = NilError) =>
      LET capsule == msgCalls[j].capsule
          user == origin[msgCalls[j].id].user
      IN IF capsule.Error # NilError
         THEN msgCalls[j].sends =
                << [to |-> user, text |-> <<"[SYSTEM]", "Error", ": ", capsule.Error>>] >>
         ELSE msgCalls[j].sends =
                [i \in 1..Len(capsule.Responses) |->
                   [to |-> user, text |-> <<capsule.Responses[i]>>]]

C15_Witness ==
  \E j, k \in 1..Len(msgCalls) :
    /\ msgCalls[j].err = NilError
    /\ msgCalls[j].capsule.Error \in ProviderErrors
    /\ Len(msgCalls[j].sends) = 1
    /\ msgCalls[k].err = NilError
    /\ msgCalls[k].capsule.Error = NilError
    /\ Len(msgCalls[k].sends) = 2

\* The label of the capsule is the label of no activated provider.
NoLabelMatch(capsule) == \A p \in 1..nProv : GetLabel(p) # capsule.FrontendProvider

\* C16: for a returned capsule whose frontendProvider is the label of no
\* activated provider, Frontend.message returns the not-found error and calls
\* no provider's Message (nothing is sent, no pending table changes), and the
\* dispatch loop goes back to its select.
C16_NoLabelMatch ==
  /\ [](\A j \in 1..Len(msgCalls) :
          NoLabelMatch(msgCalls[j].capsule) =>
            /\ msgCalls[j].prov = 0
            /\ msgCalls[j].err = "frontend provider not found"
            /\ msgCalls[j].sends = <<>>)
  /\ [][(fePc = "message" /\ fePc' # "message" /\ NoLabelMatch(caps[feCap])) =>
          /\ Len(msgCalls') = Len(msgCalls) + 1
          /\ pending' = pending
          /\ handlerSent' = handlerSent
          /\ fePc' = "select"
          /\ ~crashed']_vars

\* A capsule with a foreign label was reported, the next returned capsule was
\* delivered, and the loop has taken the next inbound event.
C16_Witness ==
  /\ Len(msgCalls) = 2
  /\ msgCalls[1].capsule.FrontendProvider = "messenger"
  /\ msgCalls[1].prov = 0
  /\ msgCalls[1].err = "frontend provider not found"
  /\ msgCalls[2].prov # 0
  /\ msgCalls[2].err = NilError
  /\ Len(msgCalls[2].sends) = 2
  /\ fePc = "sendToBackend"

\* C17: when Frontend.Start has returned, the Start task of every activated
\* provider has terminated.
C17_WaitsForProviderTasks ==
  fePc = "done" => \A p \in 1..nProv : provTask[p] = "terminated"

\* C18: the front-end dispatch loop is left, and Frontend.Start returns, only
\* when the shared channel or userInput has been closed; while both are open
\* the manager stays in its loop, whatever events, capsules and delivery
\* errors it has handled.
C18_SingleTerminationPath ==
  /\ [](fePc \in {"stop", "done"} => (chanClosed \/ uiClosed))
  /\ [][(fePc \notin {"stop", "done"} /\ fePc' \in {"stop", "done"}) =>
          (fePc = "select" /\ (chanClosed \/ uiClosed))]_vars

\* Start has returned after the loop handled a delivery error.
C18_Witness ==
  /\ fePc = "done"
  /\ chanClosed
  /\ \E j \in 1..Len(msgCalls) : msgCalls[j].err # NilError

\* C19: the back-end manager leaves its loop only on observing the closed
\* channel (never because a provider call failed); it then calls Stop on its
\* provider once, finds the wait group's counter at zero, so that b.wg.Wait()
\* does not block, and Start returns.
C19_BackendShutdown ==
  /\ [](bePc \in {"stop", "done"} => (chanClosed /\ beStops = 1 /\ beWg = 0))
  /\ [](bePc \notin {"stop", "done"} => beStops = 0)
  /\ [][(bePc \notin {"stop", "done"} /\ bePc' \in {"stop", "done"}) =>
          (bePc = "select" /\ chanClosed /\ bePc' = "stop")]_vars

\* Start has returned after a provider call failed and the loop went on.
C19_Witness ==
  /\ bePc = "done"
  /\ beStops = 1
  /\ \E id \in Ids : caps[id].Error \in ProviderErrors /\ feRecv[id] = 1

\* The entries of the configuration that make loadProvider fail: a label that
\* is not registered, or an activated entry whose initialization fails.
FailingEntries ==
  { i \in 1..Len(providerConfig) :
      \/ providerConfig[i].Label # "telegram"
      \/ providerConfig[i].IsActivated /\ providerConfig[i].Token # "valid" }

\* The members of a set of entry indexes, in configuration order.
InOrder(S) ==
  CHOOSE q \in [1..Cardinality(S) -> S] :
    \A a, b \in 1..Cardinality(S) : a < b => q[a] < q[b]

\* C20: loadProvider returns either one initialized instance per activated
\* entry, in configuration order, and no error, or no provider and the error
\* of the first failing entry; in that case it has initialized no entry after
\* the failing one.
C20_AllOrNothing ==
  loaded.called =>
    LET activated == { i \in 1..Len(providerConfig) : providerConfig[i].IsActivated }
    IN IF FailingEntries = {}
       THEN /\ loaded.err = NilError
            /\ loaded.inits = InOrder(activated)
            /\ loaded.providers =
                 [k \in 1..Cardinality(activated) |->
                    [label |-> "telegram", entry |-> InOrder(activated)[k]]]
       ELSE LET first == CHOOSE i \in FailingEntries : \A j \in FailingEntries : i <= j
            IN /\ loaded.providers = <<>>
               /\ loaded.err =
                    (IF providerConfig[first].Label # "telegram"
                     THEN "provider called messenger not found"
                     ELSE "loading provider telegram: initializing telegram: bad token")
               /\ loaded.inits = InOrder({ i \in activated : i <= first /\
                                            providerConfig[i].Label = "telegram" })

\* The first entry was initialized, the second failed: nothing is returned
\* but the error.
C20_Witness ==
  /\ loaded.called
  /\ Len(providerConfig) = 2
  /\ providerConfig[1] = [Label |-> "telegram", IsActivated |-> TRUE, Token |-> "valid"]
  /\ providerConfig[2] = [Label |-> "telegram", IsActivated |-> TRUE, Token |-> "invalid"]
  /\ loaded.providers = <<>>
  /\ loaded.err # NilError
  /\ loaded.inits = <<1, 2>>

\* The configuration entries whose label is not in the front-end registry.
UnknownLabels ==
  { i \in 1..Len(providerConfig) : providerConfig[i].Label # "telegram" }

\* An activated entry with a registered label, before the first entry with an
\* unknown label, fails to initialize.
FailsBeforeUnknown ==
  \E i \in 1..Len(providerConfig) :
    /\ \A u \in UnknownLabels : i < u
    /\ providerConfig[i].IsActivated
    /\ providerConfig[i].Token # "valid"

\* What each New returns for a configuration with an unknown label: no
\* manager, no provider and an error, and main panics before it starts a task.
NoManager(r) ==
  /\ r.manager = "nil"
  /\ r.providers = <<>>
  /\ r.err.cause # NilError
  /\ startPc = "panic"
  /\ tasks = {}

\* C21 as stated: when a configured label is absent from the registry, New
\* returns a not-found error and no manager.
C21_UnknownLabelNotFound ==
  /\ (front.called /\ UnknownLabels # {}) =>
       (NoManager(front) /\ front.err.cause = "provider called messenger not found")
  /\ (back.called /\ backendConfig.Label # "watson") =>
       (NoManager(back) /\ back.err.cause = "provider called dialogflow not found")

\* C21: when a configured label is absent from the registry, New returns an
\* error and no manager, with no provider and no default provider, and main
\* panics; the error is the not-found error, unless, in the front-end, an
\* entry before the unknown one failed to initialize, whose error is then the
\* one returned.
C21_UnknownLabelIsError ==
  /\ (front.called /\ UnknownLabels # {}) =>
       /\ NoManager(front)
       /\ IF FailsBeforeUnknown
          THEN front.err.cause = "bad token"
          ELSE front.err.cause = "provider called messenger not found"
  /\ (back.called /\ backendConfig.Label # "watson") =>
       (NoManager(back) /\ back.err.cause = "provider called dialogflow not found")

\* The first entry was initialized, the second has an unknown label.
C21_Witness ==
  /\ front.called
  /\ Len(providerConfig) = 2
  /\ providerConfig[1] = [Label |-> "telegram", IsActivated |-> TRUE, Token |-> "valid"]
  /\ providerConfig[2].Label = "messenger"
  /\ ~providerConfig[2].IsActivated
  /\ front.manager = "nil"
  /\ front.err.cause = "provider called messenger not found"
  /\ startPc = "panic"

\* C22: a task (a manager's Start or a provider's Start) is started only when
\* both New calls have returned a manager and no error; once a New call has
\* failed, main has panicked and no task is ever started.
C22_NoWorkerBeforeInit ==
  /\ [](tasks # {} =>
          /\ front.called /\ front.err = NoError /\ front.manager = "Frontend"
          /\ back.called /\ back.err = NoError /\ back.manager = "Backend")
  /\ []((front.err # NoError \/ back.err # NoError) => (startPc = "panic" /\ tasks = {}))
  /\ [][startPc = "panic" => (startPc' = "panic" /\ tasks' = {})]_vars

\* frontend.New has initialized a provider, backend.New has failed: main has
\* panicked with nothing started.
C22_Witness ==
  /\ front.manager = "Frontend"
  /\ Len(front.providers) >= 1
  /\ back.called
  /\ back.err # NoError
  /\ startPc = "panic"
  /\ tasks = {}

\* The capsule of the back-end manager's latest provider call, once the call
\* has returned (0: none).
LatestProcessed ==
  IF Len(beOrder) > 0 /\ ~(bePc = "Message")
  THEN beOrder[Len(beOrder)] ELSE NilUUID

\* C23: when a provider call has failed for a capsule and the provider call
\* for a later capsule succeeds, the later capsule carries no error and
\* exactly the outputs of its own call, and the first keeps its error and has
\* no responses; the failure itself takes the loop to the send of the capsule
\* and not out of the loop.
C23_ErrorContainment ==
  /\ [](\A i \in 1..(Len(beOrder) - 1) :
          ( /\ caps[beOrder[i]].Error # NilError
            /\ LatestProcessed = beOrder[Len(beOrder)]
            /\ beResponse.err = NilError )
          => /\ caps[LatestProcessed].Error = NilError
             /\ caps[LatestProcessed].Responses = OutputTexts(beResponse.response)
             /\ caps[beOrder[i]].Responses = <<>>
             /\ caps[beOrder[i]].Error \in ProviderErrors)
  /\ [][(bePc = "Message" /\ bePc' # "Message" /\ beResponse'.err # NilError) =>
          (bePc' = "send" /\ ~crashed')]_vars

\* The first capsule came back with the provider's error, the second has
\* been returned with the two outputs of its own call.
C23_Witness ==
  /\ Len(beOrder) = 2
  /\ caps[beOrder[1]].Error \in ProviderErrors
  /\ feRecv[beOrder[2]] = 1
  /\ caps[beOrder[2]].Error = NilError
  /\ caps[beOrder[2]].Responses = <<"A", "B">>
  /\ beResponse.err = NilError

\* The receptions of capsule id by the back-end manager.
BeReceptions(id) == Cardinality({ i \in 1..Len(beOrder) : beOrder[i] = id })

\* C24: the back-end manager has invoked its provider's Message once for
\* every capsule it has received (and no capsule reaches it twice); the call
\* is made on reception only, so that neither a failed nor a successful call
\* is followed by another call for the same capsule.
C24_NoRetry ==
  /\ [](\A id \in Ids : beCalls[id] = BeReceptions(id) /\ beCalls[id] <= 1)
  /\ [][beCalls' # beCalls =>
          /\ bePc = "select" /\ bePc' = "Message"
          /\ Len(beOrder') = Len(beOrder) + 1
          /\ beCalls' = [beCalls EXCEPT ![beCap'] = 1]]_vars
  /\ [][(bePc = "Message" /\ bePc' # "Message") =>
          (bePc' = "send" /\ beCalls' = beCalls)]_vars

\* One call failed, one succeeded, and both capsules are back at the
\* front-end manager: each was made once.
C24_Witness ==
  /\ Len(beOrder) = 2
  /\ bePc = "select"
  /\ \E id1, id2 \in Ids :
       /\ caps[id1].Error \in ProviderErrors /\ feRecv[id1] = 1 /\ beCalls[id1] = 1
       /\ caps[id2].Responses # <<>> /\ feRecv[id2] = 1 /\ beCalls[id2] = 1

\* C25: no handler task of a binding is between its read and its store of the
\* binding's pendingMessages (the append of processUserMessage) while the
\* front-end manager is between the read and the store of findPendingMessage
\* on the same binding.
C25_PendingExclusive ==
  \A h \in Handlers :
    ~( /\ hPc[h] = "append"
       /\ fePc = "cut"
       /\ hProv[h] = messageTarget(caps[feCap]) )

\* The process has ended: main has called os.Exit, or a goroutine's panic has
\* ended it.
ProcessEnded == mainPc = "exited" \/ crashed

\* C26: the shared channel is closed by main only, once, in the step in which
\* main has received the termination signal, and stays closed; and the
\* process has ended only when both managers' Start calls have returned.
C26_ExitAfterManagers ==
  /\ [][chanClosed' # chanClosed =>
          (~chanClosed /\ chanClosed' /\ mainPc = "wait" /\ mainPc' = "wgWait")]_vars
  /\ [](chanClosed <=> mainPc # "wait")
  /\ [](ProcessEnded => (fePc = "done" /\ bePc = "done"))

\* C27: every completed Frontend.message call for a returned capsule has
\* called Message on one activated provider, the binding whose handler
\* produced the inbound event with the capsule's identifier.
C27_CorrectProvider ==
  \A j \in 1..Len(msgCalls) :
    /\ msgCalls[j].prov \in 1..nProv
    /\ msgCalls[j].prov = origin[msgCalls[j].id].prov

\* C28: while the shared channel is open, the front-end manager is not
\* blocked at its send of a new capsule (sendToBackend) with the back-end
\* manager blocked at its send of a processed capsule.
C28_NoMutualSendBlock ==
  ~( /\ ~chanClosed
     /\ ~crashed
     /\ fePc = "sendToBackend"
     /\ bePc = "send" )

\* C29: a capsule is received by the back-end manager only from the
\* front-end manager's send in sendToBackend, and by the front-end manager
\* only from the back-end manager's send; the capsule the back-end manager
\* takes into its provider call carries no responses and no error, and the
\* capsule the front-end manager delivers has been through the back-end
\* manager's processing, once.
C29_DirectionOfTravel ==
  /\ [][\A id \in Ids :
          /\ BeReceptions(id)' # BeReceptions(id) =>
               (fePc = "sendToBackend" /\ feCap = id /\ owner[id] = "fe" /\ fePc' = "select"
                /\ bePc = "select" /\ beCap' = id
                /\ caps[id].Responses = <<>> /\ caps[id].Error = NilError)
          /\ feRecv'[id] # feRecv[id] =>
               (bePc = "send" /\ beCap = id /\ owner[id] = "be" /\ bePc' = "select"
                /\ fePc = "select" /\ feCap' = id)]_vars
  /\ [](fePc \in {"message", "cut"} =>
          (legs[feCap].be = 1 /\ beSends[feCap] = 1 /\ BeReceptions(feCap) = 1))
  /\ [](\A j \in 1..Len(msgCalls) : BeReceptions(msgCalls[j].id) = 1)

\* The front-end manager holds a returned capsule with responses while the
\* other capsule is back with its error: both went out and came back.
C29_Witness ==
  /\ fePc = "message"
  /\ caps[feCap].Responses = <<"A", "B">>
  /\ Len(beOrder) = 2
  /\ \E j \in 1..Len(msgCalls) :
       msgCalls[j].id # feCap /\ msgCalls[j].capsule.Error \in ProviderErrors

\* The sender matches an allowlist entry on both its name and its ID.
OnAllowlist(user) == user.Username = "bob" /\ user.ID = 1

\* The identifiers given to inbound events so far.
Issued == 1..(nextId - 1)

\* C30: every pending entry, every event on userInput, every capsule and
\* every back-end provider call comes from a text message whose sender is on
\* the allowlist with both its name and its ID; and a step that handles an
\* update without issuing an identifier or sending a notice (a text message
\* from any other sender) adds no pending entry, puts no event on userInput
\* and makes no capsule and no provider call.
C30_AuthorizationFilter ==
  /\ [](\A id \in Issued : OnAllowlist(origin[id].user))
  /\ [](\A p \in Providers : \A i \in 1..Len(pending[p]) :
          pending[p][i].uuid \in Issued /\ OnAllowlist(pending[p][i].user))
  /\ [](\A h \in Handlers : hPc[h] # "idle" =>
          (hMsg[h].OriginalMessage \in Issued /\ hMsg[h].User = "bob"))
  /\ [](\A id \in Ids : (owner[id] # "none" \/ beCalls[id] > 0) => id \in Issued)
  /\ [][(nEvents' = nEvents + 1 /\ nextId' = nextId /\ handlerSent' = handlerSent) =>
          /\ pending' = pending /\ hStore' = hStore
          /\ hPc' = hPc /\ hMsg' = hMsg
          /\ caps' = caps /\ owner' = owner
          /\ beCalls' = beCalls /\ beOrder' = beOrder]_vars

\* Two updates have been handled: one was dropped without a trace (a text
\* message from a sender not on the allowlist), the other, from the listed
\* sender, has reached the back-end provider.
C30_Witness ==
  /\ nEvents = 2
  /\ nextId = 2
  /\ handlerSent = {}
  /\ OnAllowlist(origin[1].user)
  /\ beCalls[1] = 1
  /\ \A p \in Providers : Len(pending[p]) <= 1

\* C31: close(t.userInput) is executed at most once, however many providers
\* are activated.
C31_UserInputClosedOnce == uiCloseCalls <= 1

\* C32: once userInput has been closed, no handler task is at its send on it
\* (t.userInput <- ... in processUserMessage).
C32_NoSendOnClosedUserInput ==
  uiClosed => \A h \in Handlers : hPc[h] # "send"

\* ------------------------------------------------- one binding on its own

\* The table c.before holds an entry for the identifier looked up by call c.
Hit(c) == \E i \in 1..Len(c.before) : c.before[i].uuid = c.uuid

\* later is earlier with the entry at index i taken out.
Without(earlier, i, later) ==
  /\ Len(later) = Len(earlier) - 1
  /\ \A j \in 1..(i - 1) : later[j] = earlier[j]
  /\ \A j \in i..Len(later) : later[j] = earlier[j + 1]

\* C33: a lookup that hits takes exactly the matched entry out of the table,
\* the other entries staying once each in the same order, and returns it; a
\* lookup that misses leaves the table as it was.
C33_FindRemovesExactlyTheMatch ==
  \A k \in 1..Len(calls) :
    LET c == calls[k]
    IN IF Hit(c)
       THEN /\ c.err = NilError
            /\ \E i \in 1..Len(c.before) :
                 /\ c.before[i].uuid = c.uuid
                 /\ Without(c.before, i, c.after)
                 /\ c.op = "findPendingMessage" => c.found /\ c.m = c.before[i]
            /\ \A j \in 1..Len(c.after) : c.after[j].uuid # c.uuid
       ELSE /\ c.err # NilError
            /\ c.after = c.before

\* A lookup has taken the middle entry of three out, and another has missed
\* on a table of two.
C33_Witness ==
  /\ Len(calls) = 2
  /\ calls[1].op = "findPendingMessage"
  /\ Len(calls[1].before) = 3
  /\ calls[1].before[2].uuid = calls[1].uuid
  /\ Len(calls[1].after) = 2
  /\ calls[2].op = "findPendingMessage"
  /\ ~Hit(calls[2])
  /\ Len(calls[2].after) = 2

\* C34: once Frontend.message has returned for a capsule, whether its reply
\* or error was delivered or the dispatch failed, no pending table holds an
\* entry for its identifier: every pending entry belongs to a round trip that
\* has not ended.
C34_NoStalePending ==
  \A id \in Ids : MsgCallsFor(id) # {} =>
    \A p \in Providers : ~HasEntry(p, id)

\* The configuration entries with isActivated = true, in file order.
Activated(config) == SelectSeq(config, LAMBDA pc : pc.IsActivated)

\* C35: loadProvider initializes activated entries only and returns activated
\* entries only, and it succeeds or fails, with the same error, exactly as it
\* does on the configuration without its non-activated entries.
C35_DeactivatedEntriesInert ==
  loaded.called =>
    /\ \A k \in 1..Len(loaded.inits) : providerConfig[loaded.inits[k]].IsActivated
    /\ \A k \in 1..Len(loaded.providers) :
         providerConfig[loaded.providers[k].entry].IsActivated
    /\ loaded.err = loadProvider(Activated(providerConfig)).err
    /\ Len(loaded.providers) = Len(loadProvider(Activated(providerConfig)).providers)

\* The non-activated entries whose label is not in providerCollection.
UnknownNotActivated ==
  { i \in 1..Len(providerConfig) :
      ~providerConfig[i].IsActivated /\ providerConfig[i].Label \notin providerCollection }

\* C35 (amended): loadProvider initializes activated entries only and returns
\* activated entries only; when every non-activated entry has a registered
\* label it succeeds or fails, with the same error, exactly as it does on the
\* configuration without the non-activated entries, and when a non-activated
\* entry has an unregistered label it fails and returns no provider.
C35_RegisteredDeactivatedInert ==
  loaded.called =>
    /\ \A k \in 1..Len(loaded.inits) : providerConfig[loaded.inits[k]].IsActivated
    /\ \A k \in 1..Len(loaded.providers) :
         providerConfig[loaded.providers[k].entry].IsActivated
    /\ IF UnknownNotActivated = {}
       THEN /\ loaded.err = loadProvider(Activated(providerConfig)).err
            /\ Len(loaded.providers) =
                 Len(loadProvider(Activated(providerConfig)).providers)
       ELSE /\ loaded.err # NilError
            /\ loaded.providers = <<>>

\* A non-activated entry whose initialization would fail is followed by an
\* activated one: only the second is initialized and the load succeeds.
C35_Witness ==
  /\ loaded.called
  /\ Len(providerConfig) = 2
  /\ providerConfig[1] = [Label |-> "telegram", IsActivated |-> FALSE, Token |-> "invalid"]
  /\ providerConfig[2] = [Label |-> "telegram", IsActivated |-> TRUE, Token |-> "valid"]
  /\ loaded.err = NilError
  /\ loaded.inits = <<2>>
  /\ Len(loaded.providers) = 1

\* The entry of table c.before for the identifier of call c.
EntryOf(c) == c.before[CHOOSE i \in 1..Len(c.before) : c.before[i].uuid = c.uuid]

\* C36: Message on a capsule with no error and responses r1..rn, whose
\* identifier has a pending entry, calls Bot.Send n times, once per response
\* in the order r1..rn, each time to the user of the pending entry, and
\* returns no error; the entry is gone from the table afterwards, with n = 0
\* too.
C36_MultiBubbleDelivery ==
  \A k \in 1..Len(calls) :
    LET c == calls[k]
    IN (c.op = "Message" /\ reply.Error = NilError /\ Hit(c)) =>
         /\ c.err = NilError
         /\ Len(c.sends) = Len(reply.Responses)
         /\ \A i \in 1..Len(reply.Responses) :
              c.sends[i] = [to |-> EntryOf(c).user, text |-> <<reply.Responses[i]>>]
         /\ Len(c.after) = Len(c.before) - 1
         /\ \A j \in 1..Len(c.after) : c.after[j].uuid # c.uuid

\* Two bubbles have been sent in order to the user of the second of two
\* pending entries, which are from different users.
C36_Witness ==
  /\ Len(calls) = 1
  /\ calls[1].op = "Message"
  /\ reply.Error = NilError
  /\ reply.Responses = <<"A", "B">>
  /\ Len(calls[1].before) = 2
  /\ calls[1].before[2].uuid = calls[1].uuid
  /\ calls[1].before[1].user # calls[1].before[2].user
  /\ Len(calls[1].sends) = 2
  /\ calls[1].sends[1].text = <<"A">>
  /\ calls[1].sends[2].text = <<"B">>
  /\ Len(calls[1].after) = 1

\* C37: every lookup that misses, on an empty table or not, for an identifier
\* already consumed or never entered, returns the not-found error
\* (errors.NotFoundf).
C37_MissIsNotFound ==
  \A k \in 1..Len(calls) :
    ~Hit(calls[k]) => calls[k].err = "message not found"

\* ------------------------------------------------------ earlier revision

\* The capsule the earlier back-end manager unmarshals from the document the
\* front-end manager is sending.
Arriving == unmarshalCapsuleIn(v1FeData)

\* One of the fields capsuleIsValid requires is empty.
HasEmptyField(capsule) ==
  \/ capsule.Content = ""
  \/ capsule.ContentType = ""
  \/ capsule.ProviderLabel = ""
  \/ capsule.User = ""

\* The back-end manager receives a document from the front-end manager.
V1Reception == v1FePc = "sendToBackend" /\ v1FePc' = "select"

====
